---- MODULE Spec2Model ----
(***************************************************************************)
(* Model of scripts/build_static_data.py: the static-data build that       *)
(* assembles per-player game logs from the stats endpoints (bulk league    *)
(* log, per-player backfill) and the CDN boxscores (rebuild), validates    *)
(* the coverage of the active roster and writes the dataset files and the  *)
(* manifest.                                                               *)
(*                                                                         *)
(* Encodings.  Python None is the integer None (-1): every identifier the  *)
(* providers send is >= 0 here.  A GAME_DATE is the string the provider   *)
(* sent ("" for a missing one); the strings that occur are listed in       *)
(* DateOrder in the order of Python's string comparison.  The              *)
(* coverage ratio covered / active_total < 0.55 is the integer comparison  *)
(* covered * 100 < 55 * active_total, which agrees with the float          *)
(* comparison for every pair of counts below 1200.                         *)
(***************************************************************************)
EXTENDS Integers, Sequences, FiniteSets, TLC

VARIABLES
  seasons,          \* main: the parsed list of target seasons
  si,               \* main: index of the season of the outer loop
  ti,               \* main: index into SEASON_TYPES of the inner loop
  pc,               \* position of the single thread of control
  players_payload,  \* main: the roster of the current season
  rows,             \* build_gamelogs: the working row list
  gamelog_payload,  \* main: what build_gamelogs returned
  files_players,    \* main: season -> relative path
  files_gamelogs,   \* main: season -> slug -> relative path
  disk,             \* the output directory
  disk0,            \* history: the output directory before the run
  bulk,             \* history: the bulk result of the current (season, type)
  tiers,            \* history: the tiers run for the current (season, type)
  cov,              \* history: covered active ids after each of those tiers
  built,            \* history: loop positions whose build_gamelogs was entered
  dumps,            \* history: loop positions whose dataset file was written
  pdumps,           \* history: season indices whose players file was written
  fatal,            \* history: what raised to the top level, and where
  nwrites,          \* history: number of dataset files written so far
  reqlog,           \* history: the playergamelog requests of the current pair
  netlog,           \* history: the CDN requests of the current pair
  call,             \* a function called on its own: its name and argument
  frame,            \* the local variables of that function while it runs
  ret               \* the values that function returned, in call order

vars == << seasons, si, ti, pc, players_payload, rows, gamelog_payload,
           files_players, files_gamelogs, disk, disk0, bulk, tiers, cov,
           built, dumps, pdumps, fatal, nwrites, reqlog, netlog, call, frame,
           ret >>

\* the variables of a run of main
mainvars == << seasons, si, ti, pc, players_payload, rows, gamelog_payload,
               files_players, files_gamelogs, disk, disk0, bulk, tiers, cov,
               built, dumps, pdumps, fatal, nwrites, reqlog, netlog >>

-----------------------------------------------------------------------------
(* Bounds of the model *)

\* longest list of target seasons
MaxSeasons == 2
\* active players of the smaller roster: below MinCovered / MinRatio
ActiveSmall == 200
\* active players of the larger roster: MinCovered of them are under MinRatio
ActiveLarge == 280
\* longest row list handed to a function that is called on its own
MaxRows == 4
\* most rows a provider returns for the one day of an incremental merge
MaxNewRows == 2

(* Program constants *)

\* build_gamelogs: more missing active players than this triggers backfill
MissingThreshold == 25
\* build_gamelogs, validate_coverage: covered < 150
MinCovered == 150
\* build_gamelogs, validate_coverage: coverage < 0.55, in hundredths
MinRatioPct == 55
\* build_gamelogs_from_cdn: seasonStageId of a regular-season game
StageRegular == 2
\* build_gamelogs_from_cdn: seasonStageId of a playoff game
StagePlayoffs == 4
\* build_gamelogs_from_cdn: gameStatus of a completed game
StatusFinal == 3

None == -1

SEASON_TYPES == << "Regular Season", "Playoffs" >>

Seasons == { "2024-25", "2025-26" }

\* season.split("-")[0]
SeasonStart(season) ==
  CASE season = "2024-25" -> 2024
    [] season = "2025-26" -> 2025

season_type_slug(value) ==
  CASE value = "Regular Season" -> "regular-season"
    [] value = "Playoffs" -> "playoffs"

Slugs == { season_type_slug(SEASON_TYPES[i]) : i \in 1..Len(SEASON_TYPES) }

-----------------------------------------------------------------------------
(* Python value helpers *)

\* bool(v) of an optional integer
Truthy(v) == v # None /\ v # 0

\* int(v or 0)
IntOr0(v) == IF Truthy(v) THEN v ELSE 0

\* sorted(S) of a set of integers in 0..hi
SortedIds(S, hi) ==
  LET Member(x) == x \in S
  IN  SelectSeq([i \in 1..(hi + 1) |-> i - 1], Member)

Max(a, b) == IF a >= b THEN a ELSE b

Min(a, b) == IF a <= b THEN a ELSE b

\* max(S, default=0); the first conjunct follows from the second and only
\* shortens the search
SetMax(S) ==
  IF S = {} THEN 0
  ELSE CHOOSE x \in S : (x + 1) \notin S /\ \A y \in S : y <= x

Range(s) == { s[i] : i \in 1..Len(s) }

-----------------------------------------------------------------------------
(* GAME_DATE values *)

\* the GAME_DATE strings of the model, ascending as Python compares str:
\* leaguegamelog and the CDN send ISO dates, playergamelog sends
\* "%b %d, %Y" dates
DateOrder ==
  << "", "2024-10-22", "2024-10-23", "2025-04-13", "2025-04-20",
     "Apr 13, 2025", "Oct 22, 2024" >>

\* the position of str(GAME_DATE or "") in the order of the sort key
DateRank ==
  [d \in { DateOrder[i] : i \in 1..Len(DateOrder) } |->
     CHOOSE i \in 1..Len(DateOrder) : DateOrder[i] = d]

-----------------------------------------------------------------------------
(* Rows and the payloads the providers return *)

\* a row of a stats-endpoint result set; SRC names the endpoint it came from
Row(pid, game, date, src) ==
  [PLAYER_ID |-> pid, GAME_ID |-> game, GAME_DATE |-> date, WL |-> "W",
   SRC |-> src]

\* one row per player lo..hi of one game
LogRows(lo, hi, game, date, src) ==
  IF hi < lo THEN << >>
  ELSE [i \in 1..(hi - lo + 1) |-> Row(lo + i - 1, game, date, src)]

Player(pid, active) == [player_id |-> pid, is_active |-> active]

ActivePlayers(n) ==
  IF n < 1 THEN << >> ELSE [i \in 1..n |-> Player(i, TRUE)]

\* commonallplayers results: a roster with an inactive player, a roster
\* with a PERSON_ID of 0, a roster without active players
RosterSmall == ActivePlayers(ActiveSmall) \o << Player(ActiveSmall + 1, FALSE) >>

RosterLarge == ActivePlayers(ActiveLarge) \o << Player(0, TRUE) >>

RosterIdle == << Player(1, FALSE) >>

Rosters == { RosterSmall, RosterLarge, RosterIdle }

PlayersPayload(season, players) ==
  [season |-> season, count |-> Len(players), players |-> players]

\* smallest covered count whose ratio against n active players is >= 0.55
RatioFloor(n) == (MinRatioPct * n + 99) \div 100

-----------------------------------------------------------------------------
(* build_gamelogs_per_player *)

\* What playergamelog answers for one player: "error" is a
\* requests.RequestException, otherwise the rows of the PlayerGameLog set.
\* A pattern fixes the answer for every player id.
PlayerLogPatterns == { "all_error", "all_rows", "floor_rows", "some_error" }

PlayerLogFails(pattern, player_id) ==
  \/ pattern = "all_error"
  \/ pattern = "floor_rows" /\ player_id > MinCovered /\ player_id % 2 = 0
  \/ pattern = "some_error" /\ player_id % 4 = 1

\* every fiftieth player also has an earlier game
PlayerLogRows(pattern, player_id) ==
  IF pattern = "floor_rows" /\ player_id > MinCovered
  THEN << >>
  ELSE IF player_id % 50 = 0
  THEN << Row(None, "g2", "Apr 13, 2025", "playergamelog"),
          Row(None, "g1", "Oct 22, 2024", "playergamelog") >>
  ELSE << Row(None, "g2", "Apr 13, 2025", "playergamelog") >>

\* lines 365-367: a row without PLAYER_ID gets the requested player's id
FillPlayerId(player_rows, player_id) ==
  [i \in 1..Len(player_rows) |->
     IF player_rows[i].PLAYER_ID = None
     THEN [player_rows[i] EXCEPT !.PLAYER_ID = player_id]
     ELSE player_rows[i]]

\* one playergamelog request as the loop saw it: the player asked for,
\* whether the request returned, the number of rows it returned, and
\* whether time.sleep(0.08) followed it
Request(player_id, ok, nrows, slept) ==
  [player_id |-> player_id, ok |-> ok, nrows |-> nrows, slept |-> slept]

\* mutant of per_player_loop: the first failing request ends the loop
RECURSIVE per_player_loop_stops(_, _, _, _)
per_player_loop_stops(pattern, player_ids, lo, hi) ==
  IF lo > hi THEN [rows |-> << >>, log |-> << >>]
  ELSE IF lo = hi THEN
    IF PlayerLogFails(pattern, player_ids[lo])
    THEN [rows |-> << >>, log |-> << Request(player_ids[lo], FALSE, 0, FALSE) >>]
    ELSE [rows |-> FillPlayerId(PlayerLogRows(pattern, player_ids[lo]),
                                player_ids[lo]),
          log |-> << Request(player_ids[lo], TRUE,
                             Len(PlayerLogRows(pattern, player_ids[lo])), TRUE) >>]
  ELSE LET mid == (lo + hi) \div 2
           first == per_player_loop_stops(pattern, player_ids, lo, mid)
           second == per_player_loop_stops(pattern, player_ids, mid + 1, hi)
       IN  IF \E i \in 1..Len(first.log) : ~first.log[i].ok
           THEN first
           ELSE [rows |-> first.rows \o second.rows,
                 log |-> first.log \o second.log]

\* the loop over player_ids[lo..hi], split in halves: the iterations are
\* independent, their rows are appended in list order.  `rows` is the
\* list built, `log` the requests issued.
RECURSIVE per_player_loop(_, _, _, _)
per_player_loop(pattern, player_ids, lo, hi) ==
  IF lo > hi THEN [rows |-> << >>, log |-> << >>]
  ELSE IF lo = hi THEN
    IF PlayerLogFails(pattern, player_ids[lo])
    THEN [rows |-> << >>, log |-> << Request(player_ids[lo], FALSE, 0, FALSE) >>]
    ELSE [rows |-> FillPlayerId(PlayerLogRows(pattern, player_ids[lo]),
                                player_ids[lo]),
          log |-> << Request(player_ids[lo], TRUE,
                             Len(PlayerLogRows(pattern, player_ids[lo])), TRUE) >>]
  ELSE LET mid == (lo + hi) \div 2
           first == per_player_loop(pattern, player_ids, lo, mid)
           second == per_player_loop(pattern, player_ids, mid + 1, hi)
       IN  [rows |-> first.rows \o second.rows, log |-> first.log \o second.log]

build_gamelogs_per_player(pattern, player_ids) ==
  per_player_loop(pattern, player_ids, 1, Len(player_ids))

-----------------------------------------------------------------------------
(* dedupe_rows *)

ValidKey(row) == IntOr0(row.PLAYER_ID) > 0 /\ row.GAME_ID # ""

RowKey(row) == << IntOr0(row.PLAYER_ID), row.GAME_ID >>

\* mutant of dedupe_loop: the keys of the rows passed are not remembered
RECURSIVE dedupe_loop_forgets(_, _, _, _)
dedupe_loop_forgets(rs, lo, hi, seen) ==
  IF lo > hi THEN << >>
  ELSE IF lo = hi THEN
    IF ~ValidKey(rs[lo]) THEN << rs[lo] >>
    ELSE IF RowKey(rs[lo]) \in seen THEN << >>
    ELSE << rs[lo] >>
  ELSE LET mid == (lo + hi) \div 2
       IN  dedupe_loop_forgets(rs, lo, mid, seen)
             \o dedupe_loop_forgets(rs, mid + 1, hi, seen)

\* mutant of dedupe_loop: a row without a valid key is dropped
RECURSIVE dedupe_loop_drops_imperfect(_, _, _, _)
dedupe_loop_drops_imperfect(rs, lo, hi, seen) ==
  IF lo > hi THEN << >>
  ELSE IF lo = hi THEN
    IF ~ValidKey(rs[lo]) THEN << >>
    ELSE IF RowKey(rs[lo]) \in seen THEN << >>
    ELSE << rs[lo] >>
  ELSE LET mid == (lo + hi) \div 2
           seenMid == seen \cup
             { RowKey(rs[i]) : i \in { j \in lo..mid : ValidKey(rs[j]) } }
       IN  dedupe_loop_drops_imperfect(rs, lo, mid, seen)
             \o dedupe_loop_drops_imperfect(rs, mid + 1, hi, seenMid)

\* the loop over rows[lo..hi] entered with the set `seen`, split in halves:
\* the second half is entered with the keys the first half added
RECURSIVE dedupe_loop(_, _, _, _)
dedupe_loop(rs, lo, hi, seen) ==
  IF lo > hi THEN << >>
  ELSE IF lo = hi THEN
    IF ~ValidKey(rs[lo]) THEN << rs[lo] >>
    ELSE IF RowKey(rs[lo]) \in seen THEN << >>
    ELSE << rs[lo] >>
  ELSE LET mid == (lo + hi) \div 2
           seenMid == seen \cup
             { RowKey(rs[i]) : i \in { j \in lo..mid : ValidKey(rs[j]) } }
       IN  dedupe_loop(rs, lo, mid, seen) \o dedupe_loop(rs, mid + 1, hi, seenMid)

\* the loop of dedupe_rows_last_wins from row i on
RECURSIVE last_wins_loop(_, _)
last_wins_loop(rs, i) ==
  IF i > Len(rs) THEN << >>
  ELSE IF \/ ~ValidKey(rs[i])
          \/ \A j \in (i + 1)..Len(rs) : RowKey(rs[j]) # RowKey(rs[i])
  THEN << rs[i] >> \o last_wins_loop(rs, i + 1)
  ELSE last_wins_loop(rs, i + 1)

\* mutant of dedupe_rows: the last row of a key is kept instead of the first
dedupe_rows_last_wins(rs) == last_wins_loop(rs, 1)

\* the loop of dedupe_rows_in_place from row i on; `skip` says that the
\* row before was removed from the list being iterated
RECURSIVE in_place_loop(_, _, _, _)
in_place_loop(rs, i, seen, skip) ==
  IF i > Len(rs) THEN << >>
  ELSE IF skip THEN << rs[i] >> \o in_place_loop(rs, i + 1, seen, FALSE)
  ELSE IF ~ValidKey(rs[i]) THEN << rs[i] >> \o in_place_loop(rs, i + 1, seen, FALSE)
  ELSE IF RowKey(rs[i]) \in seen THEN in_place_loop(rs, i + 1, seen, TRUE)
  ELSE << rs[i] >> \o in_place_loop(rs, i + 1, seen \cup { RowKey(rs[i]) }, FALSE)

\* mutant of dedupe_rows: duplicates are removed from the list while it is
\* iterated, so the row after a removed one is never looked at
dedupe_rows_in_place(rs) == in_place_loop(rs, 1, {}, FALSE)

dedupe_rows(rs) == dedupe_loop(rs, 1, Len(rs), {})

\* rows.sort(key=(GAME_DATE, PLAYER_ID)): the order of the sort key
RowBefore(a, b) ==
  \/ DateRank[a.GAME_DATE] < DateRank[b.GAME_DATE]
  \/ a.GAME_DATE = b.GAME_DATE /\ IntOr0(a.PLAYER_ID) < IntOr0(b.PLAYER_ID)

sort_rows(rs) == SortSeq(rs, RowBefore)

-----------------------------------------------------------------------------
(* build_gamelogs: the roster, the escalation conditions *)

RegularSeason == SEASON_TYPES[1]

\* lines 393-394, as a set
ActiveIdSet(payload) ==
  { pid \in { IntOr0(payload.players[i].player_id) :
                i \in { j \in 1..Len(payload.players) :
                          /\ payload.players[j].is_active
                          /\ Truthy(payload.players[j].player_id) } } :
      pid > 0 }

\* lines 393-394: the sorted list
active_player_ids(payload) ==
  SortedIds(ActiveIdSet(payload), SetMax(ActiveIdSet(payload)))

\* lines 403 and 416
row_player_ids(rs) ==
  { IntOr0(rs[i].PLAYER_ID) : i \in { j \in 1..Len(rs) : Truthy(rs[j].PLAYER_ID) } }

\* mutant of missing_player_ids: every active player counts as missing
missing_player_ids_everyone(payload, rs) == active_player_ids(payload)

\* line 404
missing_player_ids(payload, rs) ==
  LET present == row_player_ids(rs)
      Missing(pid) == pid \notin present
  IN  SelectSeq(active_player_ids(payload), Missing)

\* mutant of NeedsBackfill: the threshold itself already triggers
NeedsBackfillAtThreshold(rs, season_type, missing) ==
  \/ rs = << >>
  \/ season_type = RegularSeason /\ Len(missing) >= MissingThreshold

\* mutant of NeedsBackfill: an empty result escalates for Regular Season only
NeedsBackfillRegularOnly(rs, season_type, missing) ==
  /\ season_type = RegularSeason
  /\ (rs = << >> \/ Len(missing) > MissingThreshold)

\* line 407
NeedsBackfill(rs, season_type, missing) ==
  \/ rs = << >>
  \/ season_type = RegularSeason /\ Len(missing) > MissingThreshold

\* line 417
CoveredBuild(payload, rs) ==
  Cardinality(ActiveIdSet(payload) \cap row_player_ids(rs))

\* (covered / total if total else 0.0) < 0.55
RatioBelow(covered, total) ==
  IF total = 0 THEN TRUE ELSE covered * 100 < MinRatioPct * total

\* mutant of NeedsRebuild: both floors must be missed
NeedsRebuildBoth(season_type, covered, total) ==
  /\ season_type = RegularSeason
  /\ (covered < MinCovered /\ RatioBelow(covered, total))

\* mutant of NeedsRebuild: the floors are applied to every season type
NeedsRebuildAnyType(season_type, covered, total) ==
  covered < MinCovered \/ RatioBelow(covered, total)

\* line 419
NeedsRebuild(season_type, covered, total) ==
  /\ season_type = RegularSeason
  /\ (covered < MinCovered \/ RatioBelow(covered, total))

\* lines 427-437; the rows of a run carry the columns the pipeline reads
\* and no stat columns, so stat_fields (line 429) is not part of the
\* payload here: infer_stat_fields is modelled on its own rows
FinishGamelogs(season, season_type, rs) ==
  LET out == sort_rows(dedupe_rows(rs))
  IN  [season |-> season, season_type |-> season_type,
       count |-> Len(out), rows |-> out]

-----------------------------------------------------------------------------
(* validate_coverage *)

\* line 449
ValidateRowIds(payload) ==
  { IntOr0(payload.rows[i].PLAYER_ID) :
      i \in { j \in 1..Len(payload.rows) : payload.rows[j].PLAYER_ID # None } }

\* lines 455-459
ValidateActiveIds(payload) ==
  { IntOr0(payload.players[i].player_id) :
      i \in { j \in 1..Len(payload.players) :
                /\ payload.players[j].is_active
                /\ payload.players[j].player_id # None } }

\* mutant of CoverageRaises: both floors must be missed
CoverageRaisesBoth(season_type, roster, payload) ==
  /\ season_type = RegularSeason
  /\ LET covered == Cardinality(ValidateActiveIds(roster) \cap ValidateRowIds(payload))
         active_total == Cardinality(ValidateActiveIds(roster))
     IN  covered < MinCovered /\ RatioBelow(covered, active_total)

\* mutant of CoverageRaises: the floors apply to every season type
CoverageRaisesAnyType(season_type, roster, payload) ==
  LET covered == Cardinality(ValidateActiveIds(roster) \cap ValidateRowIds(payload))
      active_total == Cardinality(ValidateActiveIds(roster))
  IN  covered < MinCovered \/ RatioBelow(covered, active_total)

\* mutant of CoverageRaises: a covered count at the floor is rejected
CoverageRaisesAtFloor(season_type, roster, payload) ==
  /\ season_type = RegularSeason
  /\ LET covered == Cardinality(ValidateActiveIds(roster) \cap ValidateRowIds(payload))
         active_total == Cardinality(ValidateActiveIds(roster))
     IN  covered <= MinCovered \/ RatioBelow(covered, active_total)

\* lines 460-465: TRUE when validate_coverage raises
CoverageRaises(season_type, roster, payload) ==
  /\ season_type = RegularSeason
  /\ LET covered == Cardinality(ValidateActiveIds(roster) \cap ValidateRowIds(payload))
         active_total == Cardinality(ValidateActiveIds(roster))
     IN  covered < MinCovered \/ RatioBelow(covered, active_total)

-----------------------------------------------------------------------------
(* build_gamelogs_from_cdn *)

\* game ids of the schedule file, in ascending string order
GameIdOrder ==
  << "0022400001", "0022400002", "0022400003", "0022400004", "0022400900",
     "0042400001", "1522400001" >>

\* game_id.startswith("00")
StartsWith00(game_id) == game_id \in { GameIdOrder[i] : i \in 1..6 }

\* sorted(set(game_ids))
SortedGameIds(ids) ==
  LET Listed(g) == \E i \in 1..Len(ids) : ids[i] = g
  IN  SelectSeq(GameIdOrder, Listed)

\* line 218
StageTarget(season_type) ==
  IF season_type = RegularSeason THEN StageRegular ELSE StagePlayoffs

\* lines 225-235: the games of the schedule that are kept; game.year is
\* the year gameDateEst starts with
KeepGame(game, season, season_type) ==
  /\ StartsWith00(game.gameId)
  /\ game.year = SeasonStart(season)
  /\ game.seasonStageId = StageTarget(season_type)
  /\ game.gameStatus = StatusFinal

\* lines 221-238
CdnGameIds(schedule, season, season_type) ==
  LET Keep(game) == KeepGame(game, season, season_type)
      kept == SelectSeq(schedule, Keep)
  IN  SortedGameIds([i \in 1..Len(kept) |-> kept[i].gameId])

\* line 262
WinLoss(home_score, away_score, is_home) ==
  IF \/ home_score > away_score /\ is_home
     \/ away_score > home_score /\ ~is_home
  THEN "W" ELSE "L"

\* lines 258-300: one row per player of the team with personId > 0
emit_player(box, person_ids, is_home, season, game_id) ==
  LET Positive(pid) == IntOr0(pid) > 0
      kept == SelectSeq(person_ids, Positive)
  IN  [i \in 1..Len(kept) |->
         [PLAYER_ID |-> IntOr0(kept[i]), GAME_ID |-> game_id,
          GAME_DATE |-> box.date,
          WL |-> WinLoss(box.home_score, box.away_score, is_home),
          SRC |-> "cdn"]]

\* one boxscore request as the loop saw it: the game asked for, whether
\* the fetch returned, and the number of rows emitted from its payload
BoxRequest(game_id, ok, nrows) == [game_id |-> game_id, ok |-> ok, nrows |-> nrows]

\* mutant of cdn_loop: the first failing boxscore ends the loop
RECURSIVE cdn_loop_stops(_, _, _, _)
cdn_loop_stops(boxscores, game_ids, i, season) ==
  IF i > Len(game_ids) THEN [rows |-> << >>, log |-> << >>]
  ELSE LET box == boxscores[game_ids[i]]
           rest == cdn_loop_stops(boxscores, game_ids, i + 1, season)
           emitted == emit_player(box, box.home, TRUE, season, game_ids[i])
                        \o emit_player(box, box.away, FALSE, season, game_ids[i])
       IN  IF box.failed
           THEN [rows |-> << >>, log |-> << BoxRequest(game_ids[i], FALSE, 0) >>]
           ELSE [rows |-> emitted \o rest.rows,
                 log |-> << BoxRequest(game_ids[i], TRUE, Len(emitted)) >> \o rest.log]

\* lines 242-304: the loop over game_ids[i..].  `rows` is the list built,
\* `log` the boxscore requests issued.
RECURSIVE cdn_loop(_, _, _, _)
cdn_loop(boxscores, game_ids, i, season) ==
  IF i > Len(game_ids) THEN [rows |-> << >>, log |-> << >>]
  ELSE LET box == boxscores[game_ids[i]]
           rest == cdn_loop(boxscores, game_ids, i + 1, season)
           emitted == emit_player(box, box.home, TRUE, season, game_ids[i])
                        \o emit_player(box, box.away, FALSE, season, game_ids[i])
       IN  IF box.failed
           THEN [rows |-> rest.rows,
                 log |-> << BoxRequest(game_ids[i], FALSE, 0) >> \o rest.log]
           ELSE [rows |-> emitted \o rest.rows,
                 log |-> << BoxRequest(game_ids[i], TRUE, Len(emitted)) >> \o rest.log]

\* the rows returned, and the requests issued, when the schedule fetch
\* succeeds
build_gamelogs_from_cdn(cdn, season, season_type) ==
  cdn_loop(cdn.boxscores, CdnGameIds(cdn.schedule, season, season_type), 1, season)

IdList(lo, hi) == IF hi < lo THEN << >> ELSE [i \in 1..(hi - lo + 1) |-> lo + i - 1]

\* a game of the schedule listing; `season` is the season the game is part
\* of, which the listing does not say
ScheduleGame(game_id, year, stage, status, season) ==
  [gameId |-> game_id, year |-> year, seasonStageId |-> stage,
   gameStatus |-> status, season |-> season]

Boxscore(failed, home, away, home_score, away_score, date) ==
  [failed |-> failed, home |-> home, away |-> away,
   home_score |-> home_score, away_score |-> away_score, date |-> date]

FailedBox == Boxscore(TRUE, << >>, << >>, 0, 0, "")

\* the schedule of `season`: a game of another league, a game whose
\* boxscore fails, a game listed twice that fields players 1..n, a later
\* game of the first two of them, a game not played yet, a game played in
\* the calendar year after the season's start, a playoff game
CdnSchedule(season) ==
  << ScheduleGame(GameIdOrder[7], SeasonStart(season), StageRegular, StatusFinal, season),
     ScheduleGame(GameIdOrder[2], SeasonStart(season), StageRegular, StatusFinal, season),
     ScheduleGame(GameIdOrder[1], SeasonStart(season), StageRegular, StatusFinal, season),
     ScheduleGame(GameIdOrder[1], SeasonStart(season), StageRegular, StatusFinal, season),
     ScheduleGame(GameIdOrder[3], SeasonStart(season), StageRegular, StatusFinal, season),
     ScheduleGame(GameIdOrder[4], SeasonStart(season), StageRegular, 1, season),
     ScheduleGame(GameIdOrder[5], SeasonStart(season) + 1, StageRegular, StatusFinal, season),
     ScheduleGame(GameIdOrder[6], SeasonStart(season), StagePlayoffs, StatusFinal, season) >>

\* what the CDN answers when the first game fields players 1..n
CdnWorld(season, n) ==
  [failed |-> FALSE,
   schedule |-> CdnSchedule(season),
   boxscores |->
     [g \in Range(GameIdOrder) |->
        IF g = GameIdOrder[1]
        THEN Boxscore(FALSE, IdList(1, n \div 2) \o << 0 >>,
                      IdList(n \div 2 + 1, n) \o << None >>, 101, 99, "2025-04-13")
        ELSE IF g = GameIdOrder[3]
        THEN Boxscore(FALSE, IdList(1, Min(n, 1)), IdList(2, Min(n, 2)),
                      88, 97, "2025-04-20")
        ELSE IF g = GameIdOrder[6]
        THEN Boxscore(FALSE, IdList(1, 2), IdList(3, 4), 90, 90, "2025-04-20")
        ELSE FailedBox]]

\* the schedule fetch raises RuntimeError after its attempts
CdnDown == [failed |-> TRUE, schedule |-> << >>,
            boxscores |-> [g \in Range(GameIdOrder) |-> FailedBox]]

\* what the CDN can answer during one rebuild
CdnWorlds(season, n_active) ==
  { CdnDown } \cup
  { CdnWorld(season, n) :
      n \in { 0, MinCovered - 1,
              Max(MinCovered, RatioFloor(n_active) - 1),
              Max(MinCovered, n_active) } }

-----------------------------------------------------------------------------
(* leaguegamelog results *)

\* rows the bulk result carries besides one row per covered player: a
\* duplicate (player, game), a row without PLAYER_ID, a PLAYER_ID of 0, a
\* row without GAME_ID, a player outside the roster
OddRows ==
  << Row(1, "g2", "2024-10-22", "leaguegamelog"),
     Row(None, "g2", "2024-10-22", "leaguegamelog"),
     Row(0, "g2", "2024-10-22", "leaguegamelog"),
     Row(2, "", "2024-10-22", "leaguegamelog"),
     Row(ActiveLarge + 2, "g2", "2024-10-22", "leaguegamelog") >>

BulkCounts(n_active) ==
  { c \in { MinCovered - 1, MinCovered,
            RatioFloor(n_active) - 1, RatioFloor(n_active),
            n_active - MissingThreshold - 1, n_active - MissingThreshold } :
      c >= 0 /\ c <= n_active }

\* build_gamelogs_league results when the request succeeds: no rows, rows
\* of the first c players followed by the odd rows, and rows of just as
\* many players as the ratio floor asks for without any odd row
BulkResults(n_active) ==
  { << >> } \cup
  { LogRows(1, c, "g2", "2024-10-23", "leaguegamelog") \o OddRows : c \in BulkCounts(n_active) } \cup
  { LogRows(1, RatioFloor(n_active), "g2", "2024-10-23", "leaguegamelog") }

-----------------------------------------------------------------------------
(* The output directory.  A players file holds its payload.  A dataset     *)
(* file is identified by the write that produced it: stamp 0 is a file     *)
(* published by an earlier run, stamp n the n-th dataset write of this     *)
(* run.  The manifest's generated_at is 0 for an earlier run's manifest    *)
(* and 1 for the manifest of this run.                                     *)

NoPlayersFile == [kind |-> "absent", data |-> PlayersPayload("", << >>)]

PlayersFile(payload) == [kind |-> "file", data |-> payload]

NoGamelogFile == [kind |-> "absent", stamp |-> 0]

GamelogFile(n) == [kind |-> "file", stamp |-> n]

Pairs == Seasons \X Slugs

\* an earlier complete run published the first season only
DiskBefore ==
  [players |-> [s \in Seasons |->
                  IF s = "2024-25"
                  THEN PlayersFile(PlayersPayload(s, RosterSmall))
                  ELSE NoPlayersFile],
   gamelogs |-> [p \in Pairs |->
                   IF p[1] = "2024-25" THEN GamelogFile(0) ELSE NoGamelogFile],
   manifest |-> [generated_at |-> 0, seasons |-> << "2024-25" >>,
                 season_types |-> SEASON_TYPES,
                 players |-> { "2024-25" },
                 gamelogs |-> { p \in Pairs : p[1] = "2024-25" }]]

\* parse_seasons results: the non-empty lists of at most MaxSeasons seasons
SeasonLists ==
  UNION { [1..n -> Seasons] : n \in 1..MaxSeasons }

NoPayload == [season |-> "", season_type |-> "", count |-> 0, rows |-> << >>]

NoFatal == [kind |-> "none", si |-> 0, ti |-> 0]

\* no function is called on its own during a run of main
NoCall == [fn |-> "main", arg |-> << >>]

\* a function that runs in one step has no local variables to keep
NoFrame == << >>

\* the CDN requests of a pair: the schedule listing the rebuild read and
\* the boxscore requests it issued
NoNet == [schedule |-> << >>, boxscore |-> << >>]

CurSeason == seasons[si]

CurType == SEASON_TYPES[ti]

CurPair == << CurSeason, season_type_slug(CurType) >>

Init ==
  /\ seasons \in SeasonLists
  /\ si = 1
  /\ ti = 1
  /\ pc = "build_players"
  /\ players_payload = PlayersPayload("", << >>)
  /\ rows = << >>
  /\ gamelog_payload = NoPayload
  /\ files_players = {}
  /\ files_gamelogs = {}
  /\ disk = DiskBefore
  /\ disk0 = disk
  /\ bulk = << >>
  /\ tiers = << >>
  /\ cov = << >>
  /\ built = << >>
  /\ dumps = << >>
  /\ pdumps = << >>
  /\ fatal = NoFatal
  /\ nwrites = 0
  /\ reqlog = << >>
  /\ netlog = NoNet
  /\ call = NoCall
  /\ frame = NoFrame
  /\ ret = << >>

-----------------------------------------------------------------------------
(* main: lines 499-506, build_players and the players file *)

\* lines 501-506 once build_players has returned `payload`
EnterSeason(payload) ==
  /\ players_payload' = payload
  /\ disk' = [disk EXCEPT !.players[CurSeason] = PlayersFile(payload)]
  /\ files_players' = files_players \cup { CurSeason }
  /\ pdumps' = Append(pdumps, si)
  /\ files_gamelogs' = { p \in files_gamelogs : p[1] # CurSeason }
  /\ pc' = "bulk"
  /\ UNCHANGED << seasons, si, ti, rows, gamelog_payload, disk0, tiers, cov,
                  built, dumps, fatal, nwrites, bulk,
                  reqlog, netlog, call, frame, ret >>

\* commonallplayers answers
BuildPlayers ==
  /\ pc = "build_players"
  /\ \E players \in Rosters : EnterSeason(PlayersPayload(CurSeason, players))

\* mutant of BuildPlayersCached: the cached file is listed without being
\* written again
BuildPlayersCachedNoDump ==
  /\ pc = "build_players"
  /\ disk.players[CurSeason].kind = "file"
  /\ players_payload' = disk.players[CurSeason].data
  /\ files_players' = files_players \cup { CurSeason }
  /\ files_gamelogs' = { p \in files_gamelogs : p[1] # CurSeason }
  /\ pc' = "bulk"
  /\ UNCHANGED << seasons, si, ti, rows, gamelog_payload, disk, disk0, tiers,
                  cov, built, dumps, pdumps, fatal, nwrites, bulk,
                  reqlog, netlog, call, frame, ret >>

\* commonallplayers fails and the cached players file is used
BuildPlayersCached ==
  /\ pc = "build_players"
  /\ disk.players[CurSeason].kind = "file"
  /\ EnterSeason(disk.players[CurSeason].data)

\* mutant of BuildPlayersFail: without a cached file the run goes on with an
\* empty roster
BuildPlayersFailGoesOn ==
  /\ pc = "build_players"
  /\ disk.players[CurSeason].kind = "absent"
  /\ players_payload' = PlayersPayload(CurSeason, << >>)
  /\ pc' = "bulk"
  /\ UNCHANGED << seasons, si, ti, rows, gamelog_payload, files_players,
                  files_gamelogs, disk, disk0, tiers, cov, built, dumps,
                  pdumps, fatal, nwrites, bulk, reqlog, netlog, call, frame,
                  ret >>

\* commonallplayers fails and there is no cached file: the error is re-raised
BuildPlayersFail ==
  /\ pc = "build_players"
  /\ disk.players[CurSeason].kind = "absent"
  /\ pc' = "aborted"
  /\ fatal' = [kind |-> "players", si |-> si, ti |-> ti]
  /\ UNCHANGED << seasons, si, ti, players_payload, rows, gamelog_payload,
                  files_players, files_gamelogs, disk, disk0, tiers, cov,
                  built, dumps, pdumps, nwrites, bulk,
                  reqlog, netlog, call, frame, ret >>

-----------------------------------------------------------------------------
(* build_gamelogs *)

NActive == Len(active_player_ids(players_payload))

\* after a tier: the tier is logged with the coverage of the working rows
TierRan(tier, rs) ==
  /\ rows' = rs
  /\ tiers' = Append(tiers, tier)
  /\ cov' = Append(cov, CoveredBuild(players_payload, rs))

\* lines 396-399: the bulk request succeeds
BulkFetch ==
  /\ pc = "bulk"
  /\ \E rs \in BulkResults(NActive) :
       /\ rows' = rs
       /\ bulk' = rs
       /\ tiers' = << "bulk" >>
       /\ cov' = << CoveredBuild(players_payload, rs) >>
  /\ built' = Append(built, << si, ti >>)
  /\ pc' = "backfill"
  /\ UNCHANGED << seasons, si, ti, players_payload, gamelog_payload,
                  files_players, files_gamelogs, disk, disk0, dumps, pdumps, fatal,
                  nwrites,
                  reqlog, netlog, call, frame, ret >>

\* lines 400-401: the bulk request raises RequestException
BulkFetchFail ==
  /\ pc = "bulk"
  /\ rows' = << >>
  /\ bulk' = << >>
  /\ tiers' = << "bulk" >>
  /\ cov' = << 0 >>
  /\ built' = Append(built, << si, ti >>)
  /\ pc' = "backfill"
  /\ UNCHANGED << seasons, si, ti, players_payload, gamelog_payload,
                  files_players, files_gamelogs, disk, disk0, dumps, pdumps, fatal,
                  nwrites,
                  reqlog, netlog, call, frame, ret >>

\* mutant of Backfill: the backfill rows replace the bulk rows
BackfillReplaces ==
  /\ pc = "backfill"
  /\ LET missing == missing_player_ids(players_payload, rows)
     IN  /\ NeedsBackfill(rows, CurType, missing)
         /\ \E pattern \in PlayerLogPatterns :
              LET got == build_gamelogs_per_player(pattern, missing)
              IN  TierRan("backfill", got.rows) /\ reqlog' = got.log
  /\ pc' = "rebuild"
  /\ UNCHANGED << seasons, si, ti, players_payload, gamelog_payload,
                  files_players, files_gamelogs, disk, disk0, built, dumps, pdumps,
                  fatal, nwrites, bulk, netlog, call, frame, ret >>

\* lines 403-413: the backfill runs
Backfill ==
  /\ pc = "backfill"
  /\ LET missing == missing_player_ids(players_payload, rows)
     IN  /\ NeedsBackfill(rows, CurType, missing)
         /\ \E pattern \in PlayerLogPatterns :
              LET got == build_gamelogs_per_player(pattern, missing)
              IN  TierRan("backfill", rows \o got.rows) /\ reqlog' = got.log
  /\ pc' = "rebuild"
  /\ UNCHANGED << seasons, si, ti, players_payload, gamelog_payload,
                  files_players, files_gamelogs, disk, disk0, built, dumps, pdumps,
                  fatal, nwrites, bulk, netlog, call, frame, ret >>

\* lines 403-407: the backfill is not needed
SkipBackfill ==
  /\ pc = "backfill"
  /\ ~NeedsBackfill(rows, CurType, missing_player_ids(players_payload, rows))
  /\ pc' = "rebuild"
  /\ UNCHANGED << seasons, si, ti, players_payload, rows, gamelog_payload,
                  files_players, files_gamelogs, disk, disk0, tiers, cov,
                  built, dumps, pdumps, fatal, nwrites, bulk,
                  reqlog, netlog, call, frame, ret >>

\* mutant of Rebuild: the rebuilt rows are appended to the working rows
RebuildKeepsRows ==
  /\ pc = "rebuild"
  /\ NeedsRebuild(CurType, CoveredBuild(players_payload, rows), NActive)
  /\ \E cdn \in CdnWorlds(CurSeason, NActive) :
       /\ ~cdn.failed
       /\ LET got == build_gamelogs_from_cdn(cdn, CurSeason, CurType)
          IN  /\ TierRan("rebuild", rows \o got.rows)
              /\ netlog' = [netlog EXCEPT !.schedule = cdn.schedule,
                                          !.boxscore = got.log]
  /\ pc' = "finish"
  /\ UNCHANGED << seasons, si, ti, players_payload, gamelog_payload,
                  files_players, files_gamelogs, disk, disk0, built, dumps, pdumps,
                  fatal, nwrites, bulk,
                  reqlog, call, frame, ret >>

\* lines 416-425: the rebuild runs and the schedule fetch succeeds
Rebuild ==
  /\ pc = "rebuild"
  /\ NeedsRebuild(CurType, CoveredBuild(players_payload, rows), NActive)
  /\ \E cdn \in CdnWorlds(CurSeason, NActive) :
       /\ ~cdn.failed
       /\ LET got == build_gamelogs_from_cdn(cdn, CurSeason, CurType)
          IN  /\ TierRan("rebuild", got.rows)
              /\ netlog' = [netlog EXCEPT !.schedule = cdn.schedule,
                                          !.boxscore = got.log]
  /\ pc' = "finish"
  /\ UNCHANGED << seasons, si, ti, players_payload, gamelog_payload,
                  files_players, files_gamelogs, disk, disk0, built, dumps, pdumps,
                  fatal, nwrites, bulk,
                  reqlog, call, frame, ret >>

\* mutant of RebuildFail: the failure is logged and the pair is skipped
RebuildFailSkipsPair ==
  /\ pc = "rebuild"
  /\ NeedsRebuild(CurType, CoveredBuild(players_payload, rows), NActive)
  /\ \E cdn \in CdnWorlds(CurSeason, NActive) : cdn.failed
  /\ tiers' = Append(tiers, "rebuild")
  /\ pc' = "dumped"
  /\ fatal' = [kind |-> "rebuild", si |-> si, ti |-> ti]
  /\ UNCHANGED << seasons, si, ti, players_payload, rows, gamelog_payload,
                  files_players, files_gamelogs, disk, disk0, cov, built,
                  dumps, pdumps, nwrites, bulk,
                  reqlog, netlog, call, frame, ret >>

\* mutant of RebuildFail: the failure is swallowed and the stats rows kept
RebuildFailFallsBack ==
  /\ pc = "rebuild"
  /\ NeedsRebuild(CurType, CoveredBuild(players_payload, rows), NActive)
  /\ \E cdn \in CdnWorlds(CurSeason, NActive) : cdn.failed
  /\ tiers' = Append(tiers, "rebuild")
  /\ pc' = "finish"
  /\ UNCHANGED << seasons, si, ti, players_payload, rows, gamelog_payload,
                  files_players, files_gamelogs, disk, disk0, cov, built,
                  dumps, pdumps, fatal, nwrites, bulk,
                  reqlog, netlog, call, frame, ret >>

\* lines 416-425, 216: the rebuild runs and the schedule fetch raises
RebuildFail ==
  /\ pc = "rebuild"
  /\ NeedsRebuild(CurType, CoveredBuild(players_payload, rows), NActive)
  /\ \E cdn \in CdnWorlds(CurSeason, NActive) : cdn.failed
  /\ tiers' = Append(tiers, "rebuild")
  /\ pc' = "aborted"
  /\ fatal' = [kind |-> "rebuild", si |-> si, ti |-> ti]
  /\ UNCHANGED << seasons, si, ti, players_payload, rows, gamelog_payload,
                  files_players, files_gamelogs, disk, disk0, cov, built,
                  dumps, pdumps, nwrites, bulk,
                  reqlog, netlog, call, frame, ret >>

\* lines 416-419: the rebuild is not needed
SkipRebuild ==
  /\ pc = "rebuild"
  /\ ~NeedsRebuild(CurType, CoveredBuild(players_payload, rows), NActive)
  /\ pc' = "finish"
  /\ UNCHANGED << seasons, si, ti, players_payload, rows, gamelog_payload,
                  files_players, files_gamelogs, disk, disk0, tiers, cov,
                  built, dumps, pdumps, fatal, nwrites, bulk,
                  reqlog, netlog, call, frame, ret >>

\* lines 427-437: dedupe, sort and return
Finish ==
  /\ pc = "finish"
  /\ gamelog_payload' = FinishGamelogs(CurSeason, CurType, rows)
  /\ rows' = << >>
  /\ pc' = "validate"
  /\ UNCHANGED << seasons, si, ti, players_payload, files_players,
                  files_gamelogs, disk, disk0, tiers, cov, built, dumps, pdumps, fatal, nwrites, bulk,
                  reqlog, netlog, call, frame, ret >>

-----------------------------------------------------------------------------
(* main: lines 511-528 *)

\* line 511: validate_coverage returns
ValidateOk ==
  /\ pc = "validate"
  /\ ~CoverageRaises(CurType, players_payload, gamelog_payload)
  /\ pc' = "dump"
  /\ UNCHANGED << seasons, si, ti, players_payload, rows, gamelog_payload,
                  files_players, files_gamelogs, disk, disk0, tiers, cov,
                  built, dumps, pdumps, fatal, nwrites, bulk,
                  reqlog, netlog, call, frame, ret >>

\* mutant of ValidateFail: with a published file the failure is only logged
ValidateFailKeepsCached ==
  /\ pc = "validate"
  /\ CoverageRaises(CurType, players_payload, gamelog_payload)
  /\ pc' = IF disk.gamelogs[CurPair].kind = "file" THEN "dumped" ELSE "aborted"
  /\ fatal' = [kind |-> "coverage", si |-> si, ti |-> ti]
  /\ UNCHANGED << seasons, si, ti, players_payload, rows, gamelog_payload,
                  files_players, files_gamelogs, disk, disk0, tiers, cov,
                  built, dumps, pdumps, nwrites, bulk,
                  reqlog, netlog, call, frame, ret >>

\* line 511: validate_coverage raises RuntimeError, which main does not catch
ValidateFail ==
  /\ pc = "validate"
  /\ CoverageRaises(CurType, players_payload, gamelog_payload)
  /\ pc' = "aborted"
  /\ fatal' = [kind |-> "coverage", si |-> si, ti |-> ti]
  /\ UNCHANGED << seasons, si, ti, players_payload, rows, gamelog_payload,
                  files_players, files_gamelogs, disk, disk0, tiers, cov,
                  built, dumps, pdumps, nwrites, bulk,
                  reqlog, netlog, call, frame, ret >>

\* lines 512-514: write the dataset file and list it
DumpGamelog ==
  /\ pc = "dump"
  /\ disk' = [disk EXCEPT !.gamelogs[CurPair] = GamelogFile(nwrites + 1)]
  /\ nwrites' = nwrites + 1
  /\ dumps' = Append(dumps, << si, ti >>)
  /\ files_gamelogs' = files_gamelogs \cup { CurPair }
  /\ pc' = "dumped"
  /\ UNCHANGED << seasons, si, ti, players_payload, rows, gamelog_payload,
                  files_players, disk0, tiers, cov, built, pdumps, fatal,
                  bulk, reqlog, netlog, call, frame, ret >>

\* mutant of NextPair: the manifest step follows the first season
NextPairManifestInLoop ==
  /\ pc = "dumped"
  /\ gamelog_payload' = NoPayload
  /\ bulk' = << >>
  /\ tiers' = << >>
  /\ cov' = << >>
  /\ IF ti < Len(SEASON_TYPES)
     THEN /\ ti' = ti + 1
          /\ si' = si
          /\ pc' = "bulk"
     ELSE /\ ti' = 1
          /\ si' = si + 1
          /\ pc' = "manifest"
  /\ reqlog' = << >>
  /\ netlog' = NoNet
  /\ UNCHANGED << seasons, players_payload, rows, files_players,
                  files_gamelogs, disk, disk0, built, dumps, pdumps, fatal, nwrites,
                  call, frame, ret >>

\* line 515 and the loop headers of lines 499 and 507: the next pair
NextPair ==
  /\ pc = "dumped"
  /\ gamelog_payload' = NoPayload
  /\ bulk' = << >>
  /\ tiers' = << >>
  /\ cov' = << >>
  /\ IF ti < Len(SEASON_TYPES)
     THEN /\ ti' = ti + 1
          /\ si' = si
          /\ pc' = "bulk"
     ELSE /\ ti' = 1
          /\ si' = si + 1
          /\ pc' = IF si < Len(seasons) THEN "build_players" ELSE "manifest"
  /\ reqlog' = << >>
  /\ netlog' = NoNet
  /\ UNCHANGED << seasons, players_payload, rows, files_players,
                  files_gamelogs, disk, disk0, built, dumps, pdumps,
                  fatal, nwrites, call, frame, ret >>

\* lines 517-528
WriteManifest ==
  /\ pc = "manifest"
  /\ disk' = [disk EXCEPT !.manifest =
                [generated_at |-> 1, seasons |-> seasons,
                 season_types |-> SEASON_TYPES,
                 players |-> files_players, gamelogs |-> files_gamelogs]]
  /\ pc' = "done"
  /\ UNCHANGED << seasons, si, ti, players_payload, rows, gamelog_payload,
                  files_players, files_gamelogs, disk0, tiers, cov, built,
                  dumps, pdumps, fatal, nwrites, bulk,
                  reqlog, netlog, call, frame, ret >>

Next ==
  \/ BuildPlayers
  \/ BuildPlayersCached
  \/ BuildPlayersFail
  \/ BulkFetch
  \/ BulkFetchFail
  \/ Backfill
  \/ SkipBackfill
  \/ Rebuild
  \/ RebuildFail
  \/ SkipRebuild
  \/ Finish
  \/ ValidateOk
  \/ ValidateFail
  \/ DumpGamelog
  \/ NextPair
  \/ WriteManifest

Spec == Init /\ [][Next]_vars

-----------------------------------------------------------------------------
(* Functions called on their own.  main does not run: its variables keep   *)
(* the values of NoRun; `call` holds the function and its argument, `ret`  *)
(* the values returned so far.                                             *)

NoRun ==
  /\ seasons = << >>
  /\ si = 1
  /\ ti = 1
  /\ pc = "call"
  /\ players_payload = PlayersPayload("", << >>)
  /\ rows = << >>
  /\ gamelog_payload = NoPayload
  /\ files_players = {}
  /\ files_gamelogs = {}
  /\ disk = DiskBefore
  /\ disk0 = DiskBefore
  /\ bulk = << >>
  /\ tiers = << >>
  /\ cov = << >>
  /\ built = << >>
  /\ dumps = << >>
  /\ pdumps = << >>
  /\ fatal = NoFatal
  /\ nwrites = 0
  /\ reqlog = << >>
  /\ netlog = NoNet

\* the lists of at most MaxRows elements of S
ListsOf(S) == UNION { [1..n -> S] : n \in 0..MaxRows }

-----------------------------------------------------------------------------
(* dedupe_rows called on a row list, and again on its own result *)

\* rows with equal keys and different contents, rows without a positive
\* PLAYER_ID, a row without GAME_ID
DedupeRowPool ==
  { Row(1, "g1", "2024-10-22", "leaguegamelog"),
    Row(1, "g1", "2024-10-23", "playergamelog"),
    Row(2, "g1", "2024-10-22", "leaguegamelog"),
    Row(None, "g1", "2024-10-22", "leaguegamelog"),
    Row(0, "g1", "2024-10-22", "leaguegamelog"),
    Row(1, "", "2024-10-23", "leaguegamelog") }

InitDedupe ==
  /\ NoRun
  /\ frame = NoFrame
  /\ call \in { [fn |-> "dedupe_rows", arg |-> rs] : rs \in ListsOf(DedupeRowPool) }
  /\ ret = << >>

\* out = dedupe_rows(rows), then dedupe_rows(out)
CallDedupe ==
  /\ call.fn = "dedupe_rows"
  /\ Len(ret) < 2
  /\ ret' = Append(ret, dedupe_rows(IF ret = << >> THEN call.arg ELSE ret[Len(ret)]))
  /\ UNCHANGED << mainvars, call, frame >>

NextDedupe == CallDedupe

SpecDedupe == InitDedupe /\ [][NextDedupe]_vars

-----------------------------------------------------------------------------
(* Measures used by the properties *)

\* the ids of the active entries of a roster
RosterActiveIds(roster) ==
  { roster.players[i].player_id :
      i \in { j \in 1..Len(roster.players) : roster.players[j].is_active } }

\* the entity ids that occur in a row list
RowEntityIds(rs) == { rs[i].PLAYER_ID : i \in 1..Len(rs) }

\* active roster ids with at least one row
CoveredIds(roster, rs) == RosterActiveIds(roster) \cap RowEntityIds(rs)

\* covered < 150
LowCount(covered) == covered < MinCovered

\* covered / total < 0.55, the ratio being 0 when total is 0
LowRatio(covered, total) == total = 0 \/ 100 * covered < MinRatioPct * total

\* the dataset misses the completeness bar against the roster
BelowBar(roster, rs) ==
  \/ LowCount(Cardinality(CoveredIds(roster, rs)))
  \/ LowRatio(Cardinality(CoveredIds(roster, rs)),
              Cardinality(RosterActiveIds(roster)))

\* active roster entities (ids >= 1) without any row
MissingEntities(roster, rs) ==
  LET present == RowEntityIds(rs)
  IN  { id \in RosterActiveIds(roster) : id >= 1 /\ id \notin present }

\* number of active roster entities (ids >= 1)
NEntities(roster) == Cardinality({ id \in RosterActiveIds(roster) : id >= 1 })

AllPositions == (1..Len(seasons)) \X (1..Len(SEASON_TYPES))

PosBefore(p, q) == p[1] < q[1] \/ (p[1] = q[1] /\ p[2] < q[2])

FatalPos == << fatal.si, fatal.ti >>

FatalPair == << seasons[fatal.si], season_type_slug(SEASON_TYPES[fatal.ti]) >>

\* a tier failure or a coverage failure raised to the top level
FatalBuild == fatal.kind \in { "rebuild", "coverage" }

\* the backfill decision of the current pair has been taken
BackfillDecided ==
  \/ pc \in { "rebuild", "finish", "validate", "dump", "dumped" }
  \/ pc = "aborted" /\ FatalBuild

\* the rebuild decision of the current pair has been taken
RebuildDecided ==
  \/ pc \in { "finish", "validate", "dump", "dumped" }
  \/ pc = "aborted" /\ FatalBuild

RanTier(tier) == \E i \in 1..Len(tiers) : tiers[i] = tier

\* covered count of the working rows when the rebuild decision was taken
CoveredAtRebuildDecision ==
  IF RanTier("rebuild") THEN cov[Len(tiers) - 1] ELSE cov[Len(cov)]

-----------------------------------------------------------------------------
(* Cells.  A cell is what a row holds under a key: kind "absent" when the  *)
(* row has no such key, "none" for None, "text" for a string that is no    *)
(* number, "nan" for a NaN, "num" for an int or float and "numstr" for a   *)
(* numeric string.                                                         *)

Cell(kind, v) == [kind |-> kind, v |-> v]

Num(v) == Cell("num", v)

NoneCell == Cell("none", 0)

Absent == Cell("absent", 0)

-----------------------------------------------------------------------------
(* infer_stat_fields called on a row list.  A row maps every field name of *)
(* FieldOrder to a cell; a cell of kind "absent" says that the row has no  *)
(* such key.                                                               *)

\* the field names of the model, ascending as Python compares str
FieldOrder == << "AST", "GAME_ID", "MIN_RANK", "PLAYER_ID", "PTS", "WL" >>

FieldNames == { FieldOrder[i] : i \in 1..Len(FieldOrder) }

\* line 131
blacklist == { "PLAYER_ID", "TEAM_ID", "GAME_ID", "GAME_DATE_EST" }

\* key.endswith("_RANK")
EndsWithRank(key) == key = "MIN_RANK"

\* to_float(value) is not None
IsFloat(cell) == cell.kind \in { "num", "numstr" }

\* lines 132-137: the keys of rows[0] collected in `out`
StatKeys(rs) ==
  { key \in { f \in FieldNames : rs[1][f].kind # "absent" } :
      /\ key \notin blacklist
      /\ ~EndsWithRank(key)
      /\ \E i \in 1..Len(rs) : IsFloat(rs[i][key]) }

\* sorted(set(out)) of a set of field names
SortedFields(S) ==
  LET Member(f) == f \in S
  IN  SelectSeq(FieldOrder, Member)

infer_stat_fields(rs) ==
  IF rs = << >> THEN << >> ELSE SortedFields(StatKeys(rs))

StatRow(ast, game_id, min_rank, player_id, pts, wl) ==
  [AST |-> ast, GAME_ID |-> game_id, MIN_RANK |-> min_rank,
   PLAYER_ID |-> player_id, PTS |-> pts, WL |-> wl]

\* a row without AST, a row with every field a number, a row whose PTS is
\* a NaN and whose AST a numeric string, a row without numbers
StatRowPool ==
  { StatRow(Absent, Cell("numstr", 1), Num(3), Num(1), Num(10), Cell("text", 0)),
    StatRow(Num(4), Cell("numstr", 1), Num(2), Num(2), Num(7), Cell("text", 0)),
    StatRow(Cell("numstr", 2), Cell("numstr", 1), NoneCell, Num(3),
            Cell("nan", 0), Cell("text", 0)),
    StatRow(NoneCell, Cell("text", 0), Absent, NoneCell, Cell("text", 0), Absent) }

InitInfer ==
  /\ NoRun
  /\ frame = NoFrame
  /\ call \in { [fn |-> "infer_stat_fields", arg |-> rs] : rs \in ListsOf(StatRowPool) }
  /\ ret = << >>

\* stat_fields = infer_stat_fields(rows)
CallInfer ==
  /\ call.fn = "infer_stat_fields"
  /\ ret = << >>
  /\ ret' = << infer_stat_fields(call.arg) >>
  /\ UNCHANGED << mainvars, call, frame >>

NextInfer == CallInfer

SpecInfer == InitInfer /\ [][NextInfer]_vars

-----------------------------------------------------------------------------
(* The incremental merger, merge_day(existing_rows, new_day_rows,          *)
(* target_date): remove the existing rows of the target date, append the   *)
(* new day's rows, dedupe as dedupe_rows does, sort as build_gamelogs      *)
(* does.  existing_rows are the rows of a published dataset.               *)

merge_day(existing_rows, new_day_rows, target_date) ==
  LET OtherDate(row) == row.GAME_DATE # target_date
  IN  sort_rows(dedupe_rows(SelectSeq(existing_rows, OtherDate) \o new_day_rows))

\* rows of three dates, one of them without PLAYER_ID
MergeRowPool ==
  { Row(2, "g1", "2024-10-22", "leaguegamelog"),
    Row(1, "g1", "2024-10-22", "leaguegamelog"),
    Row(1, "g2", "2024-10-23", "leaguegamelog"),
    Row(None, "g2", "2024-10-23", "leaguegamelog"),
    Row(1, "g3", "2025-04-13", "leaguegamelog") }

\* the rows a provider returns for the day `target_date`: a row of a key
\* the dataset may hold under that date, of a key it may hold under
\* another date, and a row without PLAYER_ID
NewDayRowPool(target_date) ==
  { Row(1, "g2", target_date, "playergamelog"),
    Row(1, "g1", target_date, "playergamelog"),
    Row(None, "g2", target_date, "playergamelog") }

\* the row lists of published datasets: deduped and sorted
PublishedRows == { sort_rows(dedupe_rows(rs)) : rs \in ListsOf(MergeRowPool) }

InitMerge ==
  /\ NoRun
  /\ frame = NoFrame
  /\ \E existing_rows \in PublishedRows :
       \E target_date \in { "2024-10-23", "2025-04-13" } :
         \E n \in 0..MaxNewRows :
           \E new_day_rows \in [1..n -> NewDayRowPool(target_date)] :
             call = [fn |-> "merge_day",
                     arg |-> [existing_rows |-> existing_rows,
                              new_day_rows |-> new_day_rows,
                              target_date |-> target_date]]
  /\ ret = << >>

\* merged_rows = merge_day(existing_rows, new_day_rows, target_date)
CallMerge ==
  /\ call.fn = "merge_day"
  /\ ret = << >>
  /\ ret' = << merge_day(call.arg.existing_rows, call.arg.new_day_rows,
                         call.arg.target_date) >>
  /\ UNCHANGED << mainvars, call, frame >>

NextMerge == CallMerge

SpecMerge == InitMerge /\ [][NextMerge]_vars

-----------------------------------------------------------------------------
(* backend/app/main.py: _coalesce_synergy_playtypes.  The number of a     *)
(* stat cell is held in millionths (2.0 is 2000000); the number of an id   *)
(* cell is the id.                                                         *)

\* millionths in 1.0
Micro == 1000000
\* millionths in 0.001, the step of round(x, 3)
Milli == 1000

\* _parse_float: the float of the value, or None
parse_float(cell) ==
  IF cell.kind \in { "num", "numstr" }
  THEN [none |-> FALSE, v |-> cell.v]
  ELSE [none |-> TRUE, v |-> 0]

\* mutant of safe_number: only int and float values count, strings are 0
safe_number_numbers_only(cell) == IF cell.kind = "num" THEN cell.v ELSE 0

\* _safe_number
safe_number(cell) ==
  IF parse_float(cell).none THEN 0 ELSE parse_float(cell).v

\* the keys _player_id_from_row tries, in order
IdKeys ==
  << "PLAYER_ID", "PERSON_ID", "player_id", "person_id", "playerId", "personId" >>

\* int(row[key]) raises for None, for a NaN and for a string that is no integer
IntRaises(cell) == cell.kind \in { "none", "text", "nan" }

\* _player_id_from_row tried from IdKeys[k] on: the int of the first key
\* the row has whose value int() accepts, else None
RECURSIVE player_id_from(_, _)
player_id_from(row, k) ==
  IF k > Len(IdKeys) THEN None
  ELSE IF row[IdKeys[k]].kind = "absent" \/ IntRaises(row[IdKeys[k]])
  THEN player_id_from(row, k + 1)
  ELSE row[IdKeys[k]].v

player_id_from_row(row) == player_id_from(row, 1)

\* round(x, ndigits) of x >= 0 held in millionths, to a multiple of `step`
\* millionths; a tie goes to the even multiple
RoundTo(x, step) ==
  LET q == x \div step
      r == x % step
  IN  IF 2 * r > step \/ (2 * r = step /\ q % 2 = 1)
      THEN (q + 1) * step
      ELSE q * step

\* the digits of num / den after `acc`, k more decimal digits
RECURSIVE LongDiv(_, _, _, _)
LongDiv(r, den, k, acc) ==
  IF k = 0 THEN [q |-> acc, r |-> r]
  ELSE LongDiv((r * 10) % den, den, k - 1, acc * 10 + (r * 10) \div den)

\* round(num / den, 6) in millionths, `digits` being the decimal digits
\* that num / den still lacks to be in millionths
RoundDiv(num, den, digits) ==
  LET d == LongDiv(num % den, den, digits, num \div den)
  IN  IF 2 * d.r > den \/ (2 * d.r = den /\ d.q % 2 = 1) THEN d.q + 1 ELSE d.q

\* sum(_safe_number(r.get(field)) for r in player_rows[i..])
RECURSIVE SumField(_, _, _)
SumField(player_rows, field, i) ==
  IF i > Len(player_rows) THEN 0
  ELSE safe_number(player_rows[i][field]) + SumField(player_rows, field, i + 1)

\* sum(_safe_number(r.get(field)) * _safe_number(r.get("POSS")) ...)
RECURSIVE SumWeighted(_, _, _)
SumWeighted(player_rows, field, i) ==
  IF i > Len(player_rows) THEN 0
  ELSE safe_number(player_rows[i][field]) * safe_number(player_rows[i].POSS)
         + SumWeighted(player_rows, field, i + 1)

\* poss_weighted(field), in millionths
poss_weighted(player_rows, field) ==
  LET total_poss == SumField(player_rows, "POSS", 1)
  IN  IF total_poss <= 0 THEN 0
      ELSE RoundDiv(SumWeighted(player_rows, field, 1), total_poss, 0)

WeightedFields ==
  { "POSS_PCT", "FT_POSS_PCT", "TOV_POSS_PCT", "SF_POSS_PCT",
    "PLUSONE_POSS_PCT", "SCORE_POSS_PCT", "PERCENTILE" }

\* lines 197-236: the consolidated row of a player with several rows
Consolidated(player_rows) ==
  LET base == player_rows[1]
      total_poss == SumField(player_rows, "POSS", 1)
      total_pts == SumField(player_rows, "PTS", 1)
      total_fgm == SumField(player_rows, "FGM", 1)
      total_fga == SumField(player_rows, "FGA", 1)
      total_fgmx == SumField(player_rows, "FGMX", 1)
      total_gp == SumField(player_rows, "GP", 1)
  IN  [f \in DOMAIN base |->
         CASE f = "TEAM_ID" -> 0
           [] f = "TEAM_ABBREVIATION" -> "TOT"
           [] f = "TEAM_NAME" -> "Traded Players"
           [] f = "GP" -> Num(RoundTo(total_gp, Micro))
           [] f = "POSS" -> Num(RoundTo(total_poss, Milli))
           [] f = "PTS" -> Num(RoundTo(total_pts, Milli))
           [] f = "FGM" -> Num(RoundTo(total_fgm, Milli))
           [] f = "FGA" -> Num(RoundTo(total_fga, Milli))
           [] f = "FGMX" -> Num(RoundTo(total_fgmx, Milli))
           [] f = "PPP" ->
                Num(IF total_poss > 0 THEN RoundDiv(total_pts, total_poss, 6) ELSE 0)
           [] f = "FG_PCT" ->
                Num(IF total_fga > 0 THEN RoundDiv(total_fgm, total_fga, 6) ELSE 0)
           [] f = "EFG_PCT" ->
                Num(IF total_fga > 0
                    THEN RoundDiv(2 * total_fgm + total_fgmx, 2 * total_fga, 6)
                    ELSE 0)
           [] f \in WeightedFields -> Num(poss_weighted(player_rows, f))
           [] OTHER -> base[f]]

\* mutant of GroupedIds: every row with a player id opens a group
RECURSIVE GroupedIdsRepeats(_, _, _)
GroupedIdsRepeats(rs, i, seen) ==
  IF i > Len(rs) THEN << >>
  ELSE LET pid == player_id_from_row(rs[i])
       IN  IF pid = None
           THEN GroupedIdsRepeats(rs, i + 1, seen)
           ELSE << pid >> \o GroupedIdsRepeats(rs, i + 1, seen)

\* the keys of `grouped` in insertion order: the player ids of rows[i..]
\* that are not in `seen`
RECURSIVE GroupedIds(_, _, _)
GroupedIds(rs, i, seen) ==
  IF i > Len(rs) THEN << >>
  ELSE LET pid == player_id_from_row(rs[i])
       IN  IF pid = None \/ pid \in seen
           THEN GroupedIds(rs, i + 1, seen)
           ELSE << pid >> \o GroupedIds(rs, i + 1, seen \cup { pid })

\* _coalesce_synergy_playtypes
coalesce_synergy_playtypes(rs) ==
  LET NoId(row) == player_id_from_row(row) = None
      passthrough == SelectSeq(rs, NoId)
      pids == GroupedIds(rs, 1, {})
      merged_rows ==
        [k \in 1..Len(pids) |->
           LET Mine(row) == player_id_from_row(row) = pids[k]
               player_rows == SelectSeq(rs, Mine)
           IN  IF Len(player_rows) = 1 THEN player_rows[1]
               ELSE Consolidated(player_rows)]
  IN  merged_rows \o passthrough

\* a row of a synergy play type result set; the rate fields hold `rate`
SynergyRow(player_id, person_id, team, gp, poss, pts, fgm, fga, fgmx, rate) ==
  [PLAYER_ID |-> player_id, PERSON_ID |-> person_id, player_id |-> Absent,
   person_id |-> Absent, playerId |-> Absent, personId |-> Absent,
   TEAM_ID |-> team[1], TEAM_ABBREVIATION |-> team[2], TEAM_NAME |-> team[3],
   GP |-> gp, POSS |-> poss, PTS |-> pts, FGM |-> fgm, FGA |-> fga,
   FGMX |-> fgmx, PPP |-> rate, FG_PCT |-> rate, EFG_PCT |-> rate,
   POSS_PCT |-> rate, FT_POSS_PCT |-> rate, TOV_POSS_PCT |-> rate,
   PLUSONE_POSS_PCT |-> rate, SCORE_POSS_PCT |-> rate, PERCENTILE |-> rate]
    @@ ("SF_POSS_PCT" :> rate)

\* rows of player 1 with two teams, one of them with values of four
\* decimals; a row of player 1 found by PERSON_ID whose stats are no
\* numbers; a row of player 2; a row without a player id
SynergyRowPool ==
  { SynergyRow(Num(1), Absent, << 1, "BOS", "Celtics" >>,
               Num(10 * Micro), Num(Micro), Num(2 * Micro), Num(Micro),
               Num(2 * Micro), Num(Micro), Num(200)),
    SynergyRow(Num(1), Absent, << 2, "LAL", "Lakers" >>,
               Num(Micro \div 2), Num(400), Num(400), Num(400),
               Num(400), Num(0), Num(Micro \div 4)),
    SynergyRow(Cell("text", 0), Cell("numstr", 1), << 3, "NYK", "Knicks" >>,
               Cell("numstr", 3 * Micro), NoneCell, Cell("text", 0),
               Cell("nan", 0), Absent, NoneCell, Cell("text", 0)),
    SynergyRow(Num(2), Absent, << 4, "MIA", "Heat" >>,
               Num(5 * Micro), Cell("numstr", 3 * Micro), Num(Micro), Num(0),
               Num(Micro), Num(Micro), Num(100)),
    SynergyRow(NoneCell, Absent, << 5, "DEN", "Nuggets" >>,
               Num(Micro), Num(Micro), Num(Micro), Num(Micro),
               Num(Micro), Num(0), Num(0)) }

InitCoalesce ==
  /\ NoRun
  /\ frame = NoFrame
  /\ call \in { [fn |-> "_coalesce_synergy_playtypes", arg |-> rs] :
                  rs \in ListsOf(SynergyRowPool) }
  /\ ret = << >>

\* rows = _coalesce_synergy_playtypes(rows)
CallCoalesce ==
  /\ call.fn = "_coalesce_synergy_playtypes"
  /\ ret = << >>
  /\ ret' = << coalesce_synergy_playtypes(call.arg) >>
  /\ UNCHANGED << mainvars, call, frame >>

NextCoalesce == CallCoalesce

SpecCoalesce == InitCoalesce /\ [][NextCoalesce]_vars

-----------------------------------------------------------------------------
(* fetch_json_via_curl(url, timeout, attempts) called on its own.  Every   *)
(* pass of the loop runs curl once.  `frame` holds the loop variable, the  *)
(* curl runs so far and the delays slept, in tenths of a second.           *)

\* most tries a caller asks for: the callers of the script ask for 4 and 5
MaxAttempts == 5

\* line 90: 1.5 seconds per attempt, in tenths of a second
BackoffStep == 15
\* line 90: at most 4.0 seconds, in tenths of a second
BackoffCap == 40

\* What one run of `curl -fsSL --retry 2 --retry-delay 1` ends with:
\*   "json"       exit 0 and a JSON document on stdout
\*   "not_json"   exit 0 and text on stdout that is no JSON document
\*   "blank"      exit 0 and nothing but white space on stdout
\*   "http_4xx"   exit 22 at once: a 400, 403 or 404 answer, which curl's
\*                own --retry does not repeat
\*   "transient"  a non-zero exit after curl's own retries: no connection,
\*                a timeout, a 429 or a 5xx answer
CurlResults == { "json", "not_json", "blank", "http_4xx", "transient" }

\* proc.returncode == 0
ExitZero(result) == result \in { "json", "not_json", "blank" }

\* proc.stdout.strip()
HasOutput(result) == result \in { "json", "not_json" }

\* one curl run as the loop saw it; `doc` numbers the document on stdout
\* by the try that received it
CurlRun(result, attempt) ==
  [result |-> result, doc |-> IF result = "json" THEN attempt ELSE None]

\* mutant of InRange: one more pass than `attempts`
InRangeInclusive(attempt, attempts) == attempt <= attempts + 1

\* line 70: attempt in range(1, attempts + 1)
InRange(attempt, attempts) == attempt <= attempts

\* line 90: min(1.5 * attempt, 4.0)
Backoff(attempt) == Min(BackoffStep * attempt, BackoffCap)

FetchFrame(attempt, runs, sleeps, state, error) ==
  [attempt |-> attempt, runs |-> runs, sleeps |-> sleeps, state |-> state,
   error |-> error]

InitFetch ==
  /\ NoRun
  /\ call \in { [fn |-> "fetch_json_via_curl", arg |-> [attempts |-> n]] :
                  n \in 0..MaxAttempts }
  /\ frame = FetchFrame(1, << >>, << >>, "loop", "")
  /\ ret = << >>

Fetching ==
  /\ call.fn = "fetch_json_via_curl"
  /\ frame.state = "loop"
  /\ InRange(frame.attempt, call.arg.attempts)

\* lines 71-88: curl exits 0 with a JSON document, which is returned
CurlSucceeds ==
  /\ Fetching
  /\ frame' = [frame EXCEPT !.runs = Append(@, CurlRun("json", frame.attempt)),
                            !.state = "returned"]
  /\ ret' = << [doc |-> frame.attempt] >>
  /\ UNCHANGED << mainvars, call >>

\* lines 71-88: curl exits 0 with other text; json.loads raises
\* JSONDecodeError, which nothing in the function catches
CurlBadJson ==
  /\ Fetching
  /\ frame' = [frame EXCEPT !.runs = Append(@, CurlRun("not_json", frame.attempt)),
                            !.state = "raised",
                            !.error = "JSONDecodeError"]
  /\ UNCHANGED << mainvars, call, ret >>

\* lines 71-90: curl exits non-zero or prints nothing; sleep and go on
CurlFails ==
  /\ Fetching
  /\ \E result \in CurlResults :
       /\ ~(ExitZero(result) /\ HasOutput(result))
       /\ frame' = [frame EXCEPT !.runs = Append(@, CurlRun(result, frame.attempt)),
                                 !.sleeps = Append(@, Backoff(frame.attempt)),
                                 !.attempt = @ + 1]
  /\ UNCHANGED << mainvars, call, ret >>

\* line 91: the loop is over
FetchRaises ==
  /\ call.fn = "fetch_json_via_curl"
  /\ frame.state = "loop"
  /\ ~InRange(frame.attempt, call.arg.attempts)
  /\ frame' = [frame EXCEPT !.state = "raised", !.error = "RuntimeError"]
  /\ UNCHANGED << mainvars, call, ret >>

NextFetch ==
  \/ CurlSucceeds
  \/ CurlBadJson
  \/ CurlFails
  \/ FetchRaises

\* the one thread of the script runs on: a curl run ends within
\* --max-time and its retries, a sleep ends
SpecFetch == InitFetch /\ [][NextFetch]_vars /\ WF_vars(NextFetch)

-----------------------------------------------------------------------------
(* parse_seasons and the default season of the manifest.  A string is the  *)
(* sequence of its characters.                                             *)

MaxRawLen == 4

\* the characters of the --seasons argument: the separator of split, a
\* whitespace character and two characters of season names
RawChars == { ",", " ", "x", "y" }

DEFAULT_SEASONS ==
  << << "2", "0", "2", "5", "-", "2", "6" >>,
     << "2", "0", "2", "4", "-", "2", "5" >>,
     << "2", "0", "2", "3", "-", "2", "4" >> >>

\* str.isspace of a character
IsSpace(c) == c = " "

RECURSIVE lstrip(_)
lstrip(s) ==
  IF s # << >> /\ IsSpace(Head(s)) THEN lstrip(Tail(s)) ELSE s

RECURSIVE rstrip(_)
rstrip(s) ==
  IF s # << >> /\ IsSpace(s[Len(s)]) THEN rstrip(SubSeq(s, 1, Len(s) - 1)) ELSE s

\* x.strip()
strip(s) == rstrip(lstrip(s))

\* raw.split(","): the pieces between the separators, empty ones included
RECURSIVE split(_)
split(s) ==
  IF \A i \in 1..Len(s) : s[i] # ","
  THEN << s >>
  ELSE LET i == CHOOSE k \in 1..Len(s) :
                  s[k] = "," /\ \A j \in 1..(k - 1) : s[j] # ","
       IN  << SubSeq(s, 1, i - 1) >> \o split(SubSeq(s, i + 1, Len(s)))

\* [x.strip() for x in pieces if x.strip()]
RECURSIVE strip_all(_)
strip_all(pieces) ==
  IF pieces = << >> THEN << >>
  ELSE IF strip(Head(pieces)) = << >> THEN strip_all(Tail(pieces))
  ELSE << strip(Head(pieces)) >> \o strip_all(Tail(pieces))

\* lines 478-482
parse_seasons(raw) ==
  IF raw = << >> THEN DEFAULT_SEASONS
  ELSE LET out == strip_all(split(raw))
       IN  IF out = << >> THEN DEFAULT_SEASONS ELSE out

\* mutant of manifest_default_season: the requested season is recorded as is
manifest_default_season_as_asked(default_season, season_list) == default_season

\* line 519
manifest_default_season(default_season, season_list) ==
  IF \E i \in 1..Len(season_list) : season_list[i] = default_season
  THEN default_season
  ELSE season_list[1]

\* the strings of at most MaxRawLen characters
RawStrings == UNION { [1..n -> RawChars] : n \in 0..MaxRawLen }

\* --default-season arguments: the default of line 489, a season name, a
\* season name with whitespace around it, a name of two characters and the
\* empty string
DefaultSeasonArgs ==
  { DEFAULT_SEASONS[1], << "x" >>, << " ", "x" >>, << "y", "x" >>, << >> }

InitManifest ==
  /\ NoRun
  /\ frame = NoFrame
  /\ call \in { [fn |-> "parse_seasons",
                arg |-> [seasons |-> raw, default_season |-> d]] :
                  raw \in RawStrings, d \in DefaultSeasonArgs }
  /\ ret = << >>

\* line 492: seasons = parse_seasons(args.seasons)
CallParseSeasons ==
  /\ call.fn = "parse_seasons"
  /\ ret = << >>
  /\ ret' = << parse_seasons(call.arg.seasons) >>
  /\ UNCHANGED << mainvars, call, frame >>

\* lines 517-520: the manifest's default_season and seasons
BuildManifest ==
  /\ call.fn = "parse_seasons"
  /\ Len(ret) = 1
  /\ ret' = Append(ret,
               [default_season |->
                  manifest_default_season(call.arg.default_season, ret[1]),
                seasons |-> ret[1]])
  /\ UNCHANGED << mainvars, call, frame >>

NextManifest ==
  \/ CallParseSeasons
  \/ BuildManifest

SpecManifest == InitManifest /\ [][NextManifest]_vars

-----------------------------------------------------------------------------
(* build_gamelogs_from_cdn called on its own, the first game of the        *)
(* schedule having any scores and any players                              *)

MaxScore == 2

\* the personId lists of a home team: two players, one, none, and a player
\* without an id
HomeLists == { << 1, 2 >>, << 1 >>, << >>, << 0 >> }

\* the personId lists of an away team
AwayLists == { << 3, 4 >>, << 3 >>, << >>, << None >> }

\* the CDN of CdnWorld with the boxscore of the first game replaced
CdnWithGame(season, box) ==
  [CdnWorld(season, 4) EXCEPT !.boxscores[GameIdOrder[1]] = box]

InitCdn ==
  /\ NoRun
  /\ frame = NoFrame
  /\ call \in { [fn |-> "build_gamelogs_from_cdn",
                arg |-> [cdn |-> CdnWithGame("2024-25",
                                   Boxscore(FALSE, home, away, hs, as, "2025-04-13")),
                         season |-> "2024-25",
                         season_type |-> t]] :
                  home \in HomeLists, away \in AwayLists,
                  hs \in 0..MaxScore, as \in 0..MaxScore,
                  t \in Range(SEASON_TYPES) }
  /\ ret = << >>

\* rows = build_gamelogs_from_cdn(season, season_type)
CallCdn ==
  /\ call.fn = "build_gamelogs_from_cdn"
  /\ ret = << >>
  /\ ret' = << build_gamelogs_from_cdn(call.arg.cdn, call.arg.season,
                                       call.arg.season_type).rows >>
  /\ UNCHANGED << mainvars, call, frame >>

NextCdn == CallCdn

SpecCdn == InitCdn /\ [][NextCdn]_vars

-----------------------------------------------------------------------------
(* _cached_call of the backend, for one cache key.  The endpoints are      *)
(* plain functions, which the server runs on worker threads: invocations   *)
(* may overlap.  `frame` holds the cache entry of the key, each thread's   *)
(* position in _cached_call and the history of events; `ret` the values    *)
(* returned.                                                               *)

\* the steps of a history: invocations of _cached_call and losses of the
\* entry
MaxCalls == 3

Threads == { 1, 2 }

\* the key has no entry: never set, expired or cleared
NoEntry == [present |-> FALSE, value |-> None]

Entry(v) == [present |-> TRUE, value |-> v]

\* cache.get(cache_key): the default None without an entry
cache_get(entry) == IF entry.present THEN entry.value ELSE None

Idle == [id |-> 0, at |-> "idle", result |-> None]

Event(ev, id, v) == [ev |-> ev, id |-> id, v |-> v]

CacheFrame(cache, n, drops, thread, log) ==
  [cache |-> cache, n |-> n, drops |-> drops, thread |-> thread, log |-> log]

InitCache ==
  /\ NoRun
  /\ call = [fn |-> "_cached_call", arg |-> "key"]
  /\ frame = CacheFrame(NoEntry, 0, 0, [t \in Threads |-> Idle], << >>)
  /\ ret = << >>

CacheRunning == call.fn = "_cached_call"

\* the worker thread that takes the next request: the idle one with the
\* lowest number
Takes(t) ==
  /\ frame.thread[t].at = "idle"
  /\ \A u \in Threads : u < t => frame.thread[u].at # "idle"
  /\ frame.n + frame.drops < MaxCalls

\* lines 52-54: the entry holds a value, which is returned
CacheHit(t) ==
  /\ CacheRunning
  /\ Takes(t)
  /\ cache_get(frame.cache) # None
  /\ frame' = [frame EXCEPT !.n = @ + 1,
                            !.log = Append(@, Event("hit", frame.n + 1,
                                                    cache_get(frame.cache)))]
  /\ ret' = Append(ret, cache_get(frame.cache))
  /\ UNCHANGED << mainvars, call >>

\* lines 52-53: cache.get returns None
CacheMiss(t) ==
  /\ CacheRunning
  /\ Takes(t)
  /\ cache_get(frame.cache) = None
  /\ frame' = [frame EXCEPT !.n = @ + 1,
                            !.thread[t] = [id |-> frame.n + 1, at |-> "load",
                                           result |-> None],
                            !.log = Append(@, Event("miss", frame.n + 1, None))]
  /\ UNCHANGED << mainvars, call, ret >>

\* line 55: fn() returns None or a value, here the number of the invocation
LoaderReturns(t) ==
  /\ CacheRunning
  /\ frame.thread[t].at = "load"
  /\ \E v \in { None, frame.thread[t].id } :
       frame' = [frame EXCEPT !.thread[t].at = "set",
                              !.thread[t].result = v,
                              !.log = Append(@, Event("load", frame.thread[t].id, v))]
  /\ UNCHANGED << mainvars, call, ret >>

\* mutant of LoaderRaises: the failure is stored as the key's value
LoaderRaisesStored(t) ==
  /\ CacheRunning
  /\ frame.thread[t].at = "load"
  /\ frame' = [frame EXCEPT !.cache = Entry(0),
                            !.thread[t] = Idle,
                            !.log = Append(@, Event("raise", frame.thread[t].id, None))]
  /\ UNCHANGED << mainvars, call, ret >>

\* line 55: fn() raises, and so does _cached_call
LoaderRaises(t) ==
  /\ CacheRunning
  /\ frame.thread[t].at = "load"
  /\ frame' = [frame EXCEPT !.thread[t] = Idle,
                            !.log = Append(@, Event("raise", frame.thread[t].id, None))]
  /\ UNCHANGED << mainvars, call, ret >>

\* lines 56-57: the result is stored, None included, and returned
CacheSet(t) ==
  /\ CacheRunning
  /\ frame.thread[t].at = "set"
  /\ frame' = [frame EXCEPT !.cache = Entry(frame.thread[t].result),
                            !.thread[t] = Idle,
                            !.log = Append(@, Event("set", frame.thread[t].id,
                                                    frame.thread[t].result))]
  /\ ret' = Append(ret, frame.thread[t].result)
  /\ UNCHANGED << mainvars, call >>

\* the entry goes: CACHE_TTL_SECONDS have passed since line 56 stored it, or
\* clear_cache (lines 962-965) ran
CacheDrop ==
  /\ CacheRunning
  /\ frame.n + frame.drops < MaxCalls
  /\ frame' = [frame EXCEPT !.cache = NoEntry,
                            !.drops = @ + 1,
                            !.log = Append(@, Event("drop", 0, None))]
  /\ UNCHANGED << mainvars, call, ret >>

NextCache ==
  \/ \E t \in Threads : CacheHit(t)
  \/ \E t \in Threads : CacheMiss(t)
  \/ \E t \in Threads : LoaderReturns(t)
  \/ \E t \in Threads : LoaderRaises(t)
  \/ \E t \in Threads : CacheSet(t)
  \/ CacheDrop

SpecCache == InitCache /\ [][NextCache]_vars

-----------------------------------------------------------------------------
(* C1 *)

\* C1: a Regular Season dataset file is written only with a dataset that
\* validate_coverage accepted: right after the write, the dataset written
\* has covered >= 150 and ratio >= 0.55 against the roster of the run.
C1_WrittenDatasetMeetsBar ==
  (pc = "dumped" /\ CurType = RegularSeason) =>
     /\ disk.gamelogs[CurPair] = GamelogFile(nwrites)
     /\ ~BelowBar(players_payload, gamelog_payload.rows)

\* a Regular Season file written from the rows of the rebuild tier
C1_Witness ==
  /\ pc = "dumped"
  /\ CurType = RegularSeason
  /\ RanTier("rebuild")
  /\ disk.gamelogs[CurPair] = GamelogFile(nwrites)

(* C2 *)

\* C2: when coverage validation fails for a pair that had a dataset file on
\* disk before the run, the file on disk for that pair is exactly that file.
C2_FileAsBeforeRun ==
  (fatal.kind = "coverage" /\ disk0.gamelogs[FatalPair].kind = "file") =>
     disk.gamelogs[FatalPair] = disk0.gamelogs[FatalPair]

(* C3 *)

\* C3 as stated: when validation fails and a previously published file for
\* the pair exists, the run does not fail.
C3_RunSurvivesWithCachedFile ==
  (fatal.kind = "coverage" /\ disk0.gamelogs[FatalPair].kind = "file") =>
     pc # "aborted"

\* C3 amended: a coverage failure aborts the run whether or not a published
\* file for the pair exists; the failing pass writes no dataset and the
\* manifest is the one of before the run.
C3_CoverageFailureAborts ==
  fatal.kind = "coverage" =>
     /\ pc = "aborted"
     /\ \A i \in 1..Len(dumps) : dumps[i] # FatalPos
     /\ nwrites = Len(dumps)
     /\ disk.manifest = disk0.manifest

\* validation failed for a pair whose file an earlier run had published
C3_Witness ==
  /\ fatal.kind = "coverage"
  /\ pc = "aborted"
  /\ disk0.gamelogs[FatalPair].kind = "file"

(* C4 *)

\* C4 as stated: after a fatal failure for one pair, every other requested
\* pair has still been built when the run ends.
C4_OtherPairsStillBuilt ==
  (pc = "aborted" /\ FatalBuild) =>
     \A pos \in AllPositions \ { FatalPos } : \E i \in 1..Len(built) : built[i] = pos

\* C4 amended: a fatal failure for one pair ends the whole run: the pairs
\* built are exactly those up to the failing one, the pairs written exactly
\* those before it, and the manifest is not written.
C4_FatalFailureEndsRun ==
  FatalBuild =>
     /\ pc = "aborted"
     /\ Range(built) = { pos \in AllPositions : pos = FatalPos \/ PosBefore(pos, FatalPos) }
     /\ Range(dumps) = { pos \in AllPositions : PosBefore(pos, FatalPos) }
     /\ disk.manifest.generated_at = 0

\* the rebuild failed for a pair that has pairs written before it and pairs
\* requested after it
C4_Witness ==
  /\ fatal.kind = "rebuild"
  /\ pc = "aborted"
  /\ Len(dumps) > 0
  /\ \E pos \in AllPositions : PosBefore(FatalPos, pos)

(* C5 *)

\* C5: an aborted run leaves the manifest as it was, and the manifest of
\* this run exists only once every requested pair has been written and
\* nothing was fatal.
C5_ManifestAfterAllDatasets ==
  /\ pc = "aborted" => disk.manifest = disk0.manifest
  /\ disk.manifest.generated_at = 1 =>
       /\ pc = "done"
       /\ fatal = NoFatal
       /\ AllPositions \subseteq Range(dumps)

\* a coverage failure after datasets were written, manifest untouched
C5_Witness ==
  /\ pc = "aborted"
  /\ fatal.kind = "coverage"
  /\ Len(dumps) > 0
  /\ disk.manifest.generated_at = 0

(* C6 *)

\* C6: the backfill tier runs if and only if the bulk result is empty, or
\* the season type is Regular Season and more than 25 active roster
\* entities have no bulk row.
C6_BackfillIff ==
  BackfillDecided =>
     (RanTier("backfill") <=>
        \/ bulk = << >>
        \/ /\ CurType = RegularSeason
           /\ Cardinality(MissingEntities(players_payload, bulk)) > MissingThreshold)

\* a non-empty Regular Season bulk result with exactly 25 entities missing
\* and no backfill
C6_Witness ==
  /\ pc = "rebuild"
  /\ CurType = RegularSeason
  /\ bulk # << >>
  /\ Cardinality(MissingEntities(players_payload, bulk)) = MissingThreshold
  /\ ~RanTier("backfill")

(* C7 *)

\* C7 as stated: the rebuild tier runs only when the covered count is below
\* 150 and the ratio is below 0.55.
C7_RebuildOnlyBelowBothFloors ==
  RanTier("rebuild") =>
     /\ LowCount(CoveredAtRebuildDecision)
     /\ LowRatio(CoveredAtRebuildDecision, NEntities(players_payload))

\* C7 amended: the rebuild tier runs exactly when the season type is
\* Regular Season and the covered count is below 150 or the ratio is below
\* 0.55; it does not run only when both are at or above their floors.
C7_RebuildIffBelowEitherFloor ==
  RebuildDecided =>
     (RanTier("rebuild") <=>
        /\ CurType = RegularSeason
        /\ \/ LowCount(CoveredAtRebuildDecision)
           \/ LowRatio(CoveredAtRebuildDecision, NEntities(players_payload)))

\* the rebuild ran with the ratio at or above its floor
C7_Witness ==
  /\ RanTier("rebuild")
  /\ LowCount(CoveredAtRebuildDecision)
  /\ ~LowRatio(CoveredAtRebuildDecision, NEntities(players_payload))

(* C8 *)

TierOrders ==
  { << >>, << "bulk" >>, << "bulk", "backfill" >>, << "bulk", "rebuild" >>,
    << "bulk", "backfill", "rebuild" >> }

\* C8: the tiers of one pair run in the order bulk, backfill, rebuild, each
\* at most once; the build goes on past a triggered rebuild only with the
\* rebuild's rows, and a failed rebuild aborts with the pair unwritten.
C8_EscalationMonotonic ==
  /\ tiers \in TierOrders
  /\ (RanTier("rebuild") /\ pc \in { "finish", "validate", "dump", "dumped" }) =>
       Len(cov) = Len(tiers)
  /\ (RanTier("rebuild") /\ pc = "finish") =>
       \A i \in 1..Len(rows) : rows[i].SRC = "cdn"
  /\ fatal.kind = "rebuild" =>
       /\ pc = "aborted"
       /\ \A i \in 1..Len(dumps) : dumps[i] # FatalPos

\* all three tiers ran and the rebuild failed
C8_Witness ==
  /\ tiers = << "bulk", "backfill", "rebuild" >>
  /\ fatal.kind = "rebuild"
  /\ pc = "aborted"

(* C9 *)

\* C9 as stated: the covered count after each tier that ran is never lower
\* than after the tier before it.
C9_CoverageNeverDrops ==
  \A i \in 1..(Len(cov) - 1) : cov[i] <= cov[i + 1]

\* C9 amended: the covered count after the backfill tier is never lower
\* than after the bulk tier (the rebuild tier replaces the rows and may
\* lower it).
C9_BackfillNeverLowersCoverage ==
  (Len(cov) >= 2 /\ tiers[2] = "backfill") => cov[1] <= cov[2]

\* a backfill that raised the covered count
C9_Witness ==
  /\ Len(cov) >= 2
  /\ tiers[2] = "backfill"
  /\ cov[1] > 0
  /\ cov[2] > cov[1]

(* C10 *)

\* C10: for Regular Season validate_coverage raises exactly when the
\* covered count is below 150 or the ratio is below 0.55, and accepts in
\* every other case.
C10_ValidateRaisesIffBelowBar ==
  /\ (pc = "dump" /\ CurType = RegularSeason) =>
       ~BelowBar(players_payload, gamelog_payload.rows)
  /\ fatal.kind = "coverage" =>
       /\ SEASON_TYPES[fatal.ti] = RegularSeason
       /\ BelowBar(players_payload, gamelog_payload.rows)

\* validation raised on the ratio alone, with 150 or more covered
C10_Witness ==
  /\ fatal.kind = "coverage"
  /\ ~LowCount(Cardinality(CoveredIds(players_payload, gamelog_payload.rows)))

(* C11 *)

\* C11: for the Playoffs season type validate_coverage accepts every
\* dataset: from a Playoffs dataset awaiting validation the run always goes
\* on to write it, whatever the roster and the rows.
C11_PlayoffsAlwaysAccepted ==
  [][(pc = "validate" /\ CurType = "Playoffs") =>
       (pc' = "dump" /\ fatal' = NoFatal)]_vars

\* an empty Playoffs dataset, against a roster with active players, written
C11_Witness ==
  /\ pc = "dumped"
  /\ CurType = "Playoffs"
  /\ gamelog_payload.rows = << >>
  /\ NEntities(players_payload) > 0
  /\ disk.gamelogs[CurPair] = GamelogFile(nwrites)

(* C12 *)

\* the rows of `rs` that playergamelog returned for player `id`
PlayerLogRowsOf(rs, id) ==
  { i \in 1..Len(rs) : rs[i].SRC = "playergamelog" /\ rs[i].PLAYER_ID = id }

\* C12: when the backfill has run, the run has not aborted, every missing
\* entity was asked for even after a failed request, the bulk rows are
\* retained, every request that returned has all its rows in the working
\* rows and a failed request has none.
C12_BackfillFailureNotFatal ==
  (pc = "rebuild" /\ RanTier("backfill")) =>
     /\ fatal = NoFatal
     /\ { reqlog[i].player_id : i \in 1..Len(reqlog) }
          = MissingEntities(players_payload, bulk)
     /\ SubSeq(rows, 1, Len(bulk)) = bulk
     /\ \A i \in 1..Len(reqlog) :
          Cardinality(PlayerLogRowsOf(rows, reqlog[i].player_id))
            = IF reqlog[i].ok THEN reqlog[i].nrows ELSE 0

\* a failed request followed by a request that returned rows, after a
\* request that had returned rows
C12_Witness ==
  /\ pc = "rebuild"
  /\ RanTier("backfill")
  /\ \E i, j, k \in 1..Len(reqlog) :
       /\ i < j /\ j < k
       /\ reqlog[i].ok /\ reqlog[i].nrows > 0
       /\ ~reqlog[j].ok
       /\ reqlog[k].ok /\ reqlog[k].nrows > 0

(* C13 *)

\* C13: dedupe_rows applied to its own result returns that result, for
\* every row list, rows without a valid key included.
C13_DedupeIdempotent ==
  (call.fn = "dedupe_rows" /\ Len(ret) = 2) => ret[2] = ret[1]

\* a second application to the result of a list that lost a duplicate and
\* kept a row without a valid key
C13_Witness ==
  /\ call.fn = "dedupe_rows"
  /\ Len(ret) = 2
  /\ Len(ret[1]) < Len(call.arg)
  /\ \E i \in 1..Len(ret[1]) : ~ValidKey(ret[1][i])

(* C14 *)

\* the positions of the rows of `rs` with a positive entity id and a
\* non-empty game id
KeyedPositions(rs) ==
  { i \in 1..Len(rs) :
      rs[i].PLAYER_ID # None /\ rs[i].PLAYER_ID > 0 /\ rs[i].GAME_ID # "" }

\* C14: in every dataset build_gamelogs returns, the rows that have a
\* positive entity id and a non-empty game id have pairwise different
\* (entity id, game id) pairs.
C14_KeysUnique ==
  pc \in { "validate", "dump", "dumped" } =>
     LET keyed == KeyedPositions(gamelog_payload.rows)
     IN  Cardinality({ << gamelog_payload.rows[i].PLAYER_ID,
                          gamelog_payload.rows[i].GAME_ID >> : i \in keyed })
           = Cardinality(keyed)

\* a dataset built from bulk rows that held the same key twice
C14_Witness ==
  /\ pc = "dumped"
  /\ ~RanTier("rebuild")
  /\ \E i, j \in KeyedPositions(bulk) :
       /\ i < j
       /\ bulk[i].PLAYER_ID = bulk[j].PLAYER_ID
       /\ bulk[i].GAME_ID = bulk[j].GAME_ID
  /\ KeyedPositions(gamelog_payload.rows) # {}

(* C15 *)

\* row i of `rs` is kept: it has no valid key, or no earlier row has its key
FirstSeen(rs, i) ==
  \/ ~(rs[i].PLAYER_ID # None /\ rs[i].PLAYER_ID > 0 /\ rs[i].GAME_ID # "")
  \/ \A j \in 1..(i - 1) :
       rs[j].PLAYER_ID # rs[i].PLAYER_ID \/ rs[j].GAME_ID # rs[i].GAME_ID

\* the rows of `rs` at the positions `kept`, in the order of `rs`
RowsAt(rs, kept) ==
  [k \in 1..Cardinality(kept) |->
     rs[CHOOSE i \in kept : Cardinality({ j \in kept : j <= i }) = k]]

\* C15: dedupe_rows returns the rows of its input, in input order, that
\* have no valid key or are the first row with their key.
C15_FirstSeenKept ==
  (call.fn = "dedupe_rows" /\ Len(ret) >= 1) =>
     ret[1] = RowsAt(call.arg, { i \in 1..Len(call.arg) : FirstSeen(call.arg, i) })

\* a list with the same row without a valid key twice, both kept, and a
\* later row of a key already seen, dropped
C15_Witness ==
  /\ call.fn = "dedupe_rows"
  /\ Len(ret) >= 1
  /\ Len(ret[1]) < Len(call.arg)
  /\ \E i, j \in 1..Len(ret[1]) :
       i < j /\ ret[1][i] = ret[1][j] /\ ~ValidKey(ret[1][i])

(* C16 *)

\* the counting stats the claim names: possessions, points, makes, attempts
CountingStats == { "POSS", "PTS", "FGM", "FGA" }

\* the positions of the rows of entity `id` in `rs`
EntityPositions(rs, id) ==
  { i \in 1..Len(rs) : player_id_from_row(rs[i]) = id }

\* the entities with more than one row in `rs`
TradedEntities(rs) ==
  { id \in { player_id_from_row(rs[i]) : i \in 1..Len(rs) } :
      id # None /\ Cardinality(EntityPositions(rs, id)) > 1 }

\* the value of a cell in millionths, a missing or non-numeric one being 0
CellValue(cell) == IF cell.kind \in { "num", "numstr" } THEN cell.v ELSE 0

\* the sum of `field` over the rows of `rs` at the positions `at`
RECURSIVE FieldTotal(_, _, _)
FieldTotal(rs, at, field) ==
  IF at = {} THEN 0
  ELSE LET i == CHOOSE x \in at : TRUE
       IN  CellValue(rs[i][field]) + FieldTotal(rs, at \ { i }, field)

\* C16 as stated: for every entity with more than one input row, each
\* counting stat of its consolidated row equals the sum of that stat over
\* the entity's input rows.
C16_TotalsEqualSums ==
  (call.fn = "_coalesce_synergy_playtypes" /\ ret # << >>) =>
     \A id \in TradedEntities(call.arg) :
       \A o \in EntityPositions(ret[1], id) :
         \A f \in CountingStats :
           ret[1][o][f].v = FieldTotal(call.arg, EntityPositions(call.arg, id), f)

\* C16 amended: for every entity with more than one input row there is one
\* consolidated row, and each counting stat of it is the sum of that stat
\* over the entity's input rows rounded to three decimals: a multiple of
\* 0.001 at most 0.0005 away from the sum, and the sum itself when the sum
\* has at most three decimals.
C16_TotalsAreRoundedSums ==
  (call.fn = "_coalesce_synergy_playtypes" /\ ret # << >>) =>
     \A id \in TradedEntities(call.arg) :
       /\ Cardinality(EntityPositions(ret[1], id)) = 1
       /\ \A o \in EntityPositions(ret[1], id) :
            \A f \in CountingStats :
              LET total == FieldTotal(call.arg, EntityPositions(call.arg, id), f)
                  got == ret[1][o][f]
              IN  /\ got.kind = "num"
                  /\ got.v % Milli = 0
                  /\ 2 * (got.v - total) <= Milli
                  /\ 2 * (total - got.v) <= Milli
                  /\ total % Milli = 0 => got.v = total

\* an entity with three rows, one of them with a numeric string and one
\* with a value that is no number, whose points sum has four decimals
C16_Witness ==
  /\ call.fn = "_coalesce_synergy_playtypes"
  /\ ret # << >>
  /\ \E id \in TradedEntities(call.arg) :
       LET at == EntityPositions(call.arg, id)
       IN  /\ Cardinality(at) >= 3
           /\ \E i \in at : call.arg[i].PTS.kind = "text"
           /\ \E i \in at : call.arg[i].GP.kind = "numstr"
           /\ FieldTotal(call.arg, at, "PTS") % Milli # 0

(* C17 *)

\* the rows of `rs` whose date is not `date`, in the order of `rs`
RowsOfOtherDates(rs, date) ==
  LET Other(row) == row.GAME_DATE # date
  IN  SelectSeq(rs, Other)

\* C17: the merged rows hold the existing rows of every other date, each
\* unchanged and in their order, no existing row of the target date, of
\* the new rows every one without a valid key and one row for every valid
\* key no kept row has, and no (entity id, game id) pair twice; with zero
\* new rows they are exactly the existing rows of the other dates.
C17_MergeReplacesTargetDate ==
  (call.fn = "merge_day" /\ ret # << >>) =>
     LET existing == call.arg.existing_rows
         new == call.arg.new_day_rows
         target == call.arg.target_date
         kept == RowsOfOtherDates(existing, target)
         merged == ret[1]
         ofTarget == { i \in 1..Len(merged) : merged[i].GAME_DATE = target }
     IN  /\ RowsOfOtherDates(merged, target) = kept
         /\ \A i \in ofTarget : \E j \in 1..Len(new) : merged[i] = new[j]
         /\ \A j \in KeyedPositions(new) :
              \E i \in KeyedPositions(merged) :
                /\ merged[i].PLAYER_ID = new[j].PLAYER_ID
                /\ merged[i].GAME_ID = new[j].GAME_ID
         /\ Cardinality({ i \in ofTarget : i \notin KeyedPositions(merged) })
              = Cardinality((1..Len(new)) \ KeyedPositions(new))
         /\ Cardinality({ << merged[i].PLAYER_ID, merged[i].GAME_ID >> :
                            i \in KeyedPositions(merged) })
              = Cardinality(KeyedPositions(merged))
         /\ new = << >> => merged = kept

\* a merge with zero new rows that removed stale rows of the target date
\* and kept rows of two other dates, one of them without PLAYER_ID
C17_Witness ==
  /\ call.fn = "merge_day"
  /\ ret # << >>
  /\ call.arg.new_day_rows = << >>
  /\ Len(ret[1]) < Len(call.arg.existing_rows)
  /\ \E i, j \in 1..Len(ret[1]) :
       /\ ret[1][i].GAME_DATE # ret[1][j].GAME_DATE
       /\ ret[1][i].PLAYER_ID = None

(* C18 *)

\* the calendar day a GAME_DATE string names, counted from the first game
\* day of the model; 0 for a missing date
DateDay(date) ==
  CASE date = "" -> 0
    [] date \in { "2024-10-22", "Oct 22, 2024" } -> 1
    [] date = "2024-10-23" -> 2
    [] date \in { "2025-04-13", "Apr 13, 2025" } -> 3
    [] date = "2025-04-20" -> 4

\* the entity id of a row, 0 for a row without one
EntityIdOf(row) == IF row.PLAYER_ID = None THEN 0 ELSE row.PLAYER_ID

\* C18: in every dataset build_gamelogs returns, of two consecutive rows
\* the earlier one has the earlier game date, or the same game date and
\* the smaller or equal entity id.
C18_RowsOrderedByDate ==
  pc \in { "validate", "dump", "dumped" } =>
     \A i \in 1..(Len(gamelog_payload.rows) - 1) :
       LET a == gamelog_payload.rows[i]
           b == gamelog_payload.rows[i + 1]
       IN  \/ DateDay(a.GAME_DATE) < DateDay(b.GAME_DATE)
           \/ /\ DateDay(a.GAME_DATE) = DateDay(b.GAME_DATE)
              /\ EntityIdOf(a) <= EntityIdOf(b)

(* C19 *)

\* the (season, season type) whose dataset file the n-th write of the run
\* wrote
WrittenPair(n) == << seasons[dumps[n][1]], SEASON_TYPES[dumps[n][2]] >>

\* C19: in one run no two writes of dataset files are for the same
\* (season, season type).
C19_WrittenAtMostOnce ==
  \A m, n \in 1..Len(dumps) : WrittenPair(m) = WrittenPair(n) => m = n

(* C20 *)

\* the fields some row of `rs` holds a number or a numeric string under
NumericFields(rs) ==
  { f \in FieldNames :
      \E i \in 1..Len(rs) : rs[i][f].kind \in { "num", "numstr" } }

\* the identifier fields and the fields ending in _RANK
Denylisted == { "PLAYER_ID", "TEAM_ID", "GAME_ID", "GAME_DATE_EST", "MIN_RANK" }

\* C20: infer_stat_fields returns, sorted and without duplicates, exactly
\* the fields that any row holds a number under, less the denylisted ones,
\* also when the first row lacks the field.
C20_FieldsOfAnyRow ==
  (call.fn = "infer_stat_fields" /\ ret # << >>) =>
     /\ { ret[1][i] : i \in 1..Len(ret[1]) } = NumericFields(call.arg) \ Denylisted
     /\ \A i, j \in 1..Len(ret[1]) :
          i < j =>
            \E a, b \in 1..Len(FieldOrder) :
              a < b /\ FieldOrder[a] = ret[1][i] /\ FieldOrder[b] = ret[1][j]

(* C21 *)

\* the curl results that are permanent provider errors: a request the
\* server refuses and a payload of the wrong shape
PermanentResults == { "http_4xx", "not_json" }

\* C21: a try of fetch_json_via_curl that ends with a permanent provider
\* error is not retried: no further try of the fetch follows it.
C21_PermanentNotRetried ==
  call.fn = "fetch_json_via_curl" =>
     \A i \in 1..Len(frame.runs) :
       frame.runs[i].result \in PermanentResults => i = Len(frame.runs)

(* C22 *)

\* the fetch has returned or raised
FetchOver == call.fn = "fetch_json_via_curl" /\ frame.state \in { "returned", "raised" }

\* the tries of the fetch so far respect the ceiling: at most `attempts`
\* tries, no try after a successful one, the payload returned is that of
\* the successful try, an error only after a try that failed last, the
\* ceiling error only after `attempts` failed tries, delays never decreasing
WithinCeiling ==
  LET runs == frame.runs
      n == Len(runs)
  IN  /\ n <= call.arg.attempts
      /\ \A i \in 1..(n - 1) : runs[i].result # "json"
      /\ frame.state = "returned" =>
           /\ n >= 1 /\ runs[n].result = "json"
           /\ ret = << [doc |-> runs[n].doc] >>
      /\ frame.state # "returned" => ret = << >>
      /\ frame.state = "raised" =>
           /\ \A i \in 1..n : runs[i].result # "json"
           /\ frame.error = "RuntimeError" => n = call.arg.attempts
           /\ frame.error # "RuntimeError" => n >= 1
      /\ Len(frame.sleeps) <= n
      /\ \A i \in 1..(Len(frame.sleeps) - 1) : frame.sleeps[i] <= frame.sleeps[i + 1]

\* C22: fetch_json_via_curl makes at most `attempts` tries, returns the
\* payload of the first successful try and makes no try after it, raises
\* once the last try has failed, never sleeps a shorter delay after a
\* longer one, and always comes to an end.
C22_BoundedRetries ==
  /\ [](call.fn = "fetch_json_via_curl" => WithinCeiling)
  /\ <>FetchOver

\* a fetch that raised after the most tries, its delays having reached the
\* cap
C22_Witness ==
  /\ FetchOver
  /\ frame.error = "RuntimeError"
  /\ Len(frame.runs) = MaxAttempts
  /\ frame.sleeps[Len(frame.sleeps)] = BackoffCap
  /\ frame.sleeps[1] < BackoffCap

(* C23 *)

\* C23: every playergamelog request of the backfill that had a request
\* after it, whether it returned or failed, was followed by the pacing
\* delay.
C23_EveryRequestPaced ==
  \A i \in 1..(Len(reqlog) - 1) : reqlog[i].slept

(* C24 *)

\* the ids of the league's games in `schedule` that are completed, of the
\* stage of `season_type` and part of `season`
CompletedGamesOf(schedule, season, season_type) ==
  { schedule[i].gameId :
      i \in { j \in 1..Len(schedule) :
                /\ StartsWith00(schedule[j].gameId)
                /\ schedule[j].gameStatus = StatusFinal
                /\ schedule[j].seasonStageId =
                     (IF season_type = "Regular Season" THEN StageRegular
                      ELSE StagePlayoffs)
                /\ schedule[j].season = season } }

\* the game ids of the boxscore requests of the rebuild, in request order
FetchedGameIds == [i \in 1..Len(netlog.boxscore) |-> netlog.boxscore[i].game_id]

\* the position of a game id in ascending order
GameRank(game_id) == CHOOSE k \in 1..Len(GameIdOrder) : GameIdOrder[k] = game_id

\* C24: once the rebuild has read the schedule, the boxscores fetched are
\* those of exactly the completed games of the target season and stage,
\* whichever calendar year they were played in, each once and in
\* ascending game-id order.
C24_FetchesCompletedGamesOfSeason ==
  netlog.schedule # << >> =>
     /\ Range(FetchedGameIds) = CompletedGamesOf(netlog.schedule, CurSeason, CurType)
     /\ \A i, j \in 1..Len(FetchedGameIds) :
          i < j => GameRank(FetchedGameIds[i]) < GameRank(FetchedGameIds[j])

(* C25 *)

\* build_gamelogs has returned the dataset of the current pair
DatasetReturned == gamelog_payload # NoPayload

\* the games whose boxscore the rebuild received
ReceivedGameIds ==
  { netlog.boxscore[i].game_id :
      i \in { j \in 1..Len(netlog.boxscore) : netlog.boxscore[j].ok } }

\* C25: when the rebuild tier ran, every row of the dataset that
\* build_gamelogs returns is a row the rebuild made from a boxscore it
\* received: no row of the bulk or backfill tier is left.
C25_RebuildDiscardsStatsRows ==
  (RanTier("rebuild") /\ DatasetReturned) =>
     \A i \in 1..Len(gamelog_payload.rows) :
       /\ gamelog_payload.rows[i].SRC = "cdn"
       /\ gamelog_payload.rows[i].GAME_ID \in ReceivedGameIds

\* a rebuild after a bulk result and a backfill that both had rows, one
\* of them of an entity the rebuilt dataset does not cover
C25_Witness ==
  /\ RanTier("rebuild")
  /\ DatasetReturned
  /\ gamelog_payload.rows # << >>
  /\ bulk # << >>
  /\ LET kept == RowEntityIds(gamelog_payload.rows)
     IN  \E i \in 1..Len(reqlog) :
           /\ reqlog[i].ok
           /\ reqlog[i].nrows > 0
           /\ reqlog[i].player_id \notin kept

(* C26 *)

\* the entity ids the backfill asked playergamelog for, in request order
RequestedIds == [i \in 1..Len(reqlog) |-> reqlog[i].player_id]

\* C26: when the backfill ran, the entities asked for are exactly the
\* active roster entities without a bulk row, in ascending id order and so
\* each once; no inactive entity and no entity with a bulk row is asked
\* for.
C26_BackfillAsksForMissing ==
  RanTier("backfill") =>
     /\ Range(RequestedIds) = MissingEntities(players_payload, bulk)
     /\ \A i \in 1..(Len(RequestedIds) - 1) : RequestedIds[i] < RequestedIds[i + 1]
     /\ \A k \in 1..Len(players_payload.players) :
          ~players_payload.players[k].is_active =>
            players_payload.players[k].player_id \notin Range(RequestedIds)
     /\ Range(RequestedIds) \cap RowEntityIds(bulk) = {}

\* a backfill after a bulk result with rows of some active entities,
\* against a roster with an inactive entity
C26_Witness ==
  /\ RanTier("backfill")
  /\ RequestedIds # << >>
  /\ CoveredIds(players_payload, bulk) # {}
  /\ \E k \in 1..Len(players_payload.players) : ~players_payload.players[k].is_active

(* C27 *)

\* the entity ids of the rows of `rs` that have one
EntityIdsIn(rs) == { player_id_from_row(rs[i]) : i \in 1..Len(rs) } \ { None }

\* the rows of `rs` without an entity id, in the order of `rs`
RowsWithoutId(rs) ==
  LET NoId(row) == player_id_from_row(row) = None
  IN  SelectSeq(rs, NoId)

\* C27: the result holds one row per entity id of the input, the input
\* row itself for an entity with one row and a row with TEAM_ID 0 and
\* TEAM_ABBREVIATION "TOT" for an entity with several, and after these the
\* input rows without an entity id, unchanged and in input order.
C27_OneRowPerEntity ==
  (call.fn = "_coalesce_synergy_playtypes" /\ ret # << >>) =>
     LET input == call.arg
         out == ret[1]
         n == Cardinality(EntityIdsIn(input))
     IN  /\ Len(out) = n + Len(RowsWithoutId(input))
         /\ SubSeq(out, n + 1, Len(out)) = RowsWithoutId(input)
         /\ \A id \in EntityIdsIn(input) :
              /\ Cardinality(EntityPositions(out, id) \cap (1..n)) = 1
              /\ \A o \in EntityPositions(out, id) :
                   IF Cardinality(EntityPositions(input, id)) = 1
                   THEN \A i \in EntityPositions(input, id) : out[o] = input[i]
                   ELSE /\ out[o].TEAM_ID = 0
                        /\ out[o].TEAM_ABBREVIATION = "TOT"

\* an input that starts with a row without an entity id and holds an
\* entity with one row and an entity with several
C27_Witness ==
  /\ call.fn = "_coalesce_synergy_playtypes"
  /\ ret # << >>
  /\ Len(call.arg) = MaxRows
  /\ player_id_from_row(call.arg[1]) = None
  /\ TradedEntities(call.arg) # {}
  /\ \E id \in EntityIdsIn(call.arg) : Cardinality(EntityPositions(call.arg, id)) = 1

(* C28 *)

\* the positions of the rows of `rs` that belong to game `game_id`
GameRowsOf(rs, game_id) == { i \in 1..Len(rs) : rs[i].GAME_ID = game_id }

\* C28: when the rebuild has gone through the schedule, nothing was
\* raised, a boxscore was asked for every game the schedule filter kept,
\* also after a failed request, every received boxscore has all its rows
\* in the rebuild's result and a failed one has none.
C28_BoxscoreFailureNotFatal ==
  (pc = "finish" /\ RanTier("rebuild")) =>
     /\ fatal = NoFatal
     /\ Range(FetchedGameIds) =
          { netlog.schedule[i].gameId :
              i \in { j \in 1..Len(netlog.schedule) :
                        KeepGame(netlog.schedule[j], CurSeason, CurType) } }
     /\ \A k \in 1..Len(netlog.boxscore) :
          Cardinality(GameRowsOf(rows, netlog.boxscore[k].game_id))
            = IF netlog.boxscore[k].ok THEN netlog.boxscore[k].nrows ELSE 0

\* a failed boxscore request between two requests that returned rows
C28_Witness ==
  /\ pc = "finish"
  /\ RanTier("rebuild")
  /\ \E i, j, k \in 1..Len(netlog.boxscore) :
       /\ i < j /\ j < k
       /\ netlog.boxscore[i].ok /\ netlog.boxscore[i].nrows > 0
       /\ ~netlog.boxscore[j].ok
       /\ netlog.boxscore[k].ok /\ netlog.boxscore[k].nrows > 0

(* C29 *)

\* C29: a Regular Season dataset that build_gamelogs returned without
\* running the rebuild, its own rebuild condition not holding, is never
\* rejected by validate_coverage.
C29_NoRebuildPassesValidation ==
  (fatal.kind = "coverage" /\ SEASON_TYPES[fatal.ti] = "Regular Season") =>
     RanTier("rebuild")

(* C30 *)

\* the active roster entities (ids >= 1)
ActiveEntities == { id \in RosterActiveIds(players_payload) : id >= 1 }

\* C30: a bulk request that raises leaves the run alive with an empty bulk
\* result, and after an empty bulk result the backfill tier runs and asks
\* for every active roster entity, for Regular Season and Playoffs alike.
C30_BulkFailureRunsBackfill ==
  /\ [][BulkFetchFail =>
          (pc' = "backfill" /\ bulk' = << >> /\ rows' = << >> /\ fatal' = fatal)]_vars
  /\ []((BackfillDecided /\ bulk = << >>) =>
          (RanTier("backfill") /\ Range(RequestedIds) = ActiveEntities))

\* the backfill of a Playoffs pair after an empty bulk result
C30_Witness ==
  /\ CurType = "Playoffs"
  /\ bulk = << >>
  /\ fatal = NoFatal
  /\ RanTier("backfill")
  /\ Range(RequestedIds) = ActiveEntities
  /\ ActiveEntities # {}

(* C31 *)

\* C31: while a Playoffs pair is built, the rebuild tier has not run,
\* whatever rows the bulk and backfill tiers left, and the backfill tier has
\* run only after an empty bulk result.
C31_PlayoffsNeverRebuilds ==
  CurType = "Playoffs" =>
     /\ ~RanTier("rebuild")
     /\ fatal.kind # "rebuild"
     /\ (RanTier("backfill") => bulk = << >>)
     /\ (RebuildDecided => tiers[Len(tiers)] \in { "bulk", "backfill" })

\* a Playoffs pair past its rebuild decision with no row at all, after a
\* backfill in which nothing came back
C31_Witness ==
  /\ CurType = "Playoffs"
  /\ pc = "finish"
  /\ RanTier("backfill")
  /\ rows = << >>
  /\ NEntities(players_payload) > 0

\* a Playoffs pair past its rebuild decision whose bulk result covered
\* fewer entities than the floor and led to no backfill
C31_WitnessLowBulk ==
  /\ CurType = "Playoffs"
  /\ pc = "finish"
  /\ tiers = << "bulk" >>
  /\ bulk # << >>
  /\ cov[1] < MinCovered

(* C32 *)

\* the seasons whose players file this run has written
PlayersWritten == { seasons[pdumps[i]] : i \in 1..Len(pdumps) }

\* the (season, slug) pairs whose dataset file this run has written
DatasetsWritten ==
  { << seasons[dumps[i][1]], season_type_slug(SEASON_TYPES[dumps[i][2]]) >> :
      i \in 1..Len(dumps) }

\* every path of the lists `players` and `gamelogs` is a file this run wrote
ListedWritten(players, gamelogs) ==
  /\ players \subseteq PlayersWritten
  /\ gamelogs \subseteq DatasetsWritten
  /\ \A s \in players : disk.players[s].kind = "file"
  /\ \A p \in gamelogs :
       disk.gamelogs[p].kind = "file" /\ disk.gamelogs[p].stamp >= 1

\* C32: the manifest of this run lists the players path of every processed
\* season and the dataset path of every processed season and season type,
\* and nothing else; every listed file was written by this run, and was
\* already written when the manifest was.
C32_ManifestListsWrittenFiles ==
  /\ [](disk.manifest.generated_at = 1 =>
          /\ disk.manifest.seasons = seasons
          /\ disk.manifest.players = Range(seasons)
          /\ disk.manifest.gamelogs = Range(seasons) \X Slugs
          /\ ListedWritten(disk.manifest.players, disk.manifest.gamelogs))
  /\ [][disk'.manifest # disk.manifest =>
          /\ ListedWritten(files_players, files_gamelogs)
          /\ disk'.manifest.players = files_players
          /\ disk'.manifest.gamelogs = files_gamelogs]_vars

\* a completed run over two seasons, one of them with a published players
\* file and published datasets
C32_Witness ==
  /\ pc = "done"
  /\ disk.manifest.generated_at = 1
  /\ Cardinality(Range(seasons)) = 2
  /\ Len(pdumps) = 2
  /\ Len(dumps) = 4

(* C33 *)

\* C33: the seasons list of the manifest is never empty, and its
\* default_season is one of its seasons: the requested one when that is in
\* the list, the first of the list otherwise.
C33_DefaultSeasonIsListed ==
  (call.fn = "parse_seasons" /\ Len(ret) = 2) =>
     LET manifest == ret[2]
         asked == call.arg.default_season
     IN  /\ manifest.seasons # << >>
         /\ manifest.default_season \in Range(manifest.seasons)
         /\ asked \in Range(manifest.seasons) => manifest.default_season = asked
         /\ asked \notin Range(manifest.seasons) =>
              manifest.default_season = manifest.seasons[1]

\* a manifest whose requested default is not among two parsed seasons, the
\* first of which is not the requested one either
C33_Witness ==
  /\ call.fn = "parse_seasons"
  /\ Len(ret) = 2
  /\ Len(ret[2].seasons) = 2
  /\ call.arg.default_season \notin Range(ret[2].seasons)
  /\ ret[2].default_season = ret[2].seasons[1]

\* an argument of separators and whitespace only, answered by the default
\* seasons
C33_WitnessNoSeason ==
  /\ call.fn = "parse_seasons"
  /\ Len(ret) = 2
  /\ call.arg.seasons # << >>
  /\ ret[2].seasons = DEFAULT_SEASONS

(* C34 *)

\* build_gamelogs has been entered for the current pair or a later step of
\* the pair is reached
InGamelogs ==
  pc \in { "bulk", "backfill", "rebuild", "finish", "validate", "dump", "dumped" }

\* C34: a roster fetch that fails with a cached players file of the season
\* hands that file's roster to the season's builds; one that fails without
\* such a file ends the run before any dataset of the season is built; and
\* every build of gamelogs works with the roster of its season, which is
\* also the season's players file.
C34_NoGamelogsWithoutRoster ==
  /\ [][BuildPlayersCached =>
          /\ disk.players[CurSeason].kind = "file"
          /\ players_payload' = disk.players[CurSeason].data
          /\ pc' = "bulk" /\ fatal' = NoFatal]_vars
  /\ [][BuildPlayersFail =>
          /\ disk.players[CurSeason].kind = "absent"
          /\ pc' = "aborted" /\ fatal'.kind = "players"
          /\ built' = built /\ disk' = disk]_vars
  /\ [](fatal.kind = "players" =>
          /\ pc = "aborted"
          /\ \A i \in 1..Len(built) : built[i][1] # fatal.si
          /\ \A i \in 1..Len(pdumps) : pdumps[i] # fatal.si)
  /\ [](InGamelogs =>
          /\ players_payload.season = CurSeason
          /\ disk.players[CurSeason] = PlayersFile(players_payload)
          /\ pdumps # << >> /\ pdumps[Len(pdumps)] = si)
  /\ [](\A i \in 1..Len(built) : \E j \in 1..Len(pdumps) : pdumps[j] = built[i][1])

\* the roster fetch of the second season fails without a cached file, after
\* the datasets of the first season were written
C34_Witness ==
  /\ pc = "aborted"
  /\ fatal.kind = "players"
  /\ fatal.si = 2
  /\ Len(dumps) = 2
  /\ disk.players[seasons[2]].kind = "absent"

\* the builds of a season run with the roster of the players file an
\* earlier run published
C34_WitnessCached ==
  /\ InGamelogs
  /\ players_payload = disk0.players[CurSeason].data
  /\ disk0.players[CurSeason].kind = "file"

(* C35 *)

\* the indices of the rows of `rs` of game `g` whose player is in `ids`
TeamRows(rs, g, ids) ==
  { i \in 1..Len(rs) : rs[i].GAME_ID = g /\ rs[i].PLAYER_ID \in Range(ids) }

\* C35: in the rows the rebuild returns, every row of the home team of a
\* game and every row of the away team of that game carry the two
\* different flags "W" and "L".
C35_OppositeFlags ==
  (call.fn = "build_gamelogs_from_cdn" /\ Len(ret) = 1) =>
     \A g \in Range(GameIdOrder) :
        LET box == call.arg.cdn.boxscores[g]
        IN  \A i \in TeamRows(ret[1], g, box.home) :
              \A j \in TeamRows(ret[1], g, box.away) :
                 { ret[1][i].WL, ret[1][j].WL } = { "W", "L" }

(* C36 *)

\* the history of events of the cache key
CacheLog == frame.log

\* the invocations came one after the other: between two events of one
\* invocation there is no event of another
OneAfterTheOther ==
  \A i, j, k \in 1..Len(CacheLog) :
     (i < j /\ j < k /\ CacheLog[i].id # 0 /\ CacheLog[i].id = CacheLog[k].id) =>
        CacheLog[j].id \in { 0, CacheLog[i].id }

\* the entry went between the events j and k
DroppedBetween(j, k) ==
  \E d \in (j + 1)..(k - 1) : CacheLog[d].ev = "drop"

\* event j stored a value that is not None
StoredAt(j) == CacheLog[j].ev = "set" /\ CacheLog[j].v # None

\* the loader was invoked for event k
LoaderRanAt(k) == CacheLog[k].ev \in { "load", "raise" }

\* C36: in a sequence of invocations with the same key that come one after
\* the other, the loader is not invoked after an invocation stored a value
\* other than None unless the entry expired or was cleared in between; an
\* invocation that finds a stored value returns that value, the last one
\* stored; and a loader that raises leaves the entry as it was and returns
\* nothing.
C36_LoaderRunsOnlyWithoutStoredResult ==
  /\ [](CacheRunning /\ OneAfterTheOther =>
          /\ \A j, k \in 1..Len(CacheLog) :
                (j < k /\ StoredAt(j) /\ LoaderRanAt(k)) => DroppedBetween(j, k)
          /\ \A k \in 1..Len(CacheLog) :
                CacheLog[k].ev = "hit" =>
                   \E j \in 1..(k - 1) :
                      /\ StoredAt(j) /\ CacheLog[j].v = CacheLog[k].v
                      /\ ~DroppedBetween(j, k)
                      /\ \A m \in (j + 1)..(k - 1) : CacheLog[m].ev # "set")
  /\ [][(CacheRunning /\ Len(frame'.log) > Len(frame.log)
           /\ frame'.log[Len(frame'.log)].ev = "raise") =>
          (frame'.cache = frame.cache /\ ret' = ret)]_vars

\* three invocations one after the other: the loader raises, the next
\* invocation runs it again and stores its result, the third returns that
\* result without the loader
C36_Witness ==
  /\ CacheRunning
  /\ OneAfterTheOther
  /\ Len(CacheLog) = 6
  /\ CacheLog[1].ev = "miss" /\ CacheLog[2].ev = "raise"
  /\ CacheLog[3].ev = "miss" /\ CacheLog[4].ev = "load"
  /\ CacheLog[5].ev = "set" /\ CacheLog[5].v # None
  /\ CacheLog[6].ev = "hit" /\ CacheLog[6].v = CacheLog[5].v
  /\ ret = << CacheLog[5].v, CacheLog[5].v >>

\* two invocations that overlap: the second one's loader runs although the
\* first has stored its result
C36_WitnessOverlap ==
  /\ CacheRunning
  /\ ~OneAfterTheOther
  /\ \E j, k \in 1..Len(CacheLog) :
        j < k /\ StoredAt(j) /\ LoaderRanAt(k) /\ ~DroppedBetween(j, k)

====
